---- MODULE Spec2Model ----
(***************************************************************************)
(* Model of the moltworker gateway supervisor:                             *)
(*   - the control handlers GET /api/status and POST /api/restart          *)
(*     (src/src/routes/public.ts),                                         *)
(*   - the container startup sequence start-moltbot.sh (carried in         *)
(*     src/src/routes/sessions.test.ts from line 244 on): already-running  *)
(*     check, backup restore, configuration hydration, orphan cleanup and  *)
(*     gateway launch,                                                     *)
(*   - the session store's read path (listSessions, getHistory), whose     *)
(*     route code is not part of the sources and is taken from the         *)
(*     specification and the route's tests.                                *)
(* Each action is one run-to-completion segment of a handler (the code     *)
(* between two awaits) or one step of the startup script.                  *)
(***************************************************************************)
EXTENDS Integers, Sequences, FiniteSets, TLC

\* ------------------------------------------------------------------ bounds
\* Startup sequences the container begins on its own, and gateway launches.
MaxStartups == 1
MaxPid == 2

\* Two restart requests (enough for any pair to overlap) and one status
\* request are in flight at most.
RestartIds == {1, 2}
StatusIds == {1}
\* Owner 0 is the container's own startup; owner r > 0 is the background boot
\* scheduled by restart request r.
Owners == {0} \cup RestartIds
Pids == 1..MaxPid
NoPid == 0

\* ------------------------------------------------------------------ tokens
\* url.searchParams.get('token') is null when the parameter is missing;
\* c.env.MOLTBOT_GATEWAY_TOKEN is undefined when no token is configured.
NullToken == "<null>"
UndefinedToken == "<undefined>"
RequestTokens == {NullToken, "", "secret", "wrong"}
ConfiguredTokens == {UndefinedToken, "", "secret"}

\* JavaScript truthiness of a token value: null, undefined and '' are falsy.
Falsy(t) == t \in {NullToken, UndefinedToken, ""}

VARIABLES
    gw,            \* [Pids -> gateway OS process state]
    nextPid,       \* the pid the next launched gateway process gets
    gatewayToken,  \* c.env.MOLTBOT_GATEWAY_TOKEN
    restart,       \* [RestartIds -> restart request]
    status,        \* [StatusIds -> status request]
    boot,          \* [Owners -> a run of the startup sequence]
    containerEnv,  \* the container's environment variables
    configFile,    \* the content of /root/.clawdbot/clawdbot.json
    startups,      \* number of startup sequences the container itself began
    uncaught,      \* an error escaped a handler or a promise was left unhandled
    localSync,     \* the content of /root/.clawdbot/.last-sync
    backup,        \* what the mounted backup bucket (/data/moltbot) holds
    skills,        \* the state of /root/clawd/skills
    sessionStore,  \* the gateway's session listing, index and transcript
    session,       \* the session request being served
    launch,        \* [Pids -> the arguments the gateway process was launched with]
    message,       \* the session message the panel renders
    shown,         \* the text the panel shows for it
    images,        \* the container images the registry lists, in listing order
    deploy,        \* a run of deploy.sh
    chat           \* the chat-completions request the shim serves

backupVars == <<localSync, backup, skills>>
sessionVars == <<sessionStore, session>>
viewVars == <<message, shown>>
deployVars == <<images, deploy>>
shimVars == <<chat>>
vars == <<gw, nextPid, gatewayToken, restart, status, boot, containerEnv, configFile,
          startups, uncaught, backupVars, sessionVars, launch, viewVars, deployVars,
                   shimVars>>

\* ------------------------------------------------------------ process view
\* A gateway process is "starting" from its exec until it binds the port,
\* "serving" while it answers on the port, "hung" when it holds the port but
\* no longer answers, "dead" once terminated, "none" while the pid is unused.
GwStates == {"none", "starting", "serving", "hung", "dead"}
LiveProcs == {p \in Pids : gw[p] \in {"starting", "serving", "hung"}}
PortHolders == {p \in Pids : gw[p] \in {"serving", "hung"}}
PortAnswers == \E p \in Pids : gw[p] = "serving"

\* A JSON response; a field the body does not carry holds its neutral value
\* ("" for strings, NoPid for process ids, FALSE for booleans) and "fields"
\* lists the keys the serialized body carries (JSON.stringify drops undefined).
NoResp == [code |-> 0, fields |-> {}, ok |-> FALSE, status |-> "",
           success |-> FALSE, error |-> "", message |-> "", processId |-> NoPid,
           previousProcessId |-> NoPid]

IdleRestart == [pc |-> "idle", token |-> NullToken, existing |-> NoPid,
                killFailed |-> FALSE, log |-> <<>>, resp |-> NoResp]
IdleStatus == [pc |-> "idle", found |-> NoPid, probeOk |-> FALSE,
               findFailed |-> FALSE, resp |-> NoResp]
\* log: what this run of the script did, in order ("restore", "skills",
\* "hydrate", "launch").
IdleBoot == [pc |-> "none", pid |-> NoPid, sawHealthy |-> FALSE, caught |-> FALSE,
             log |-> <<>>]

\* ------------------------------------------------- GET /api/status handler
\* Variant: the not_responding branch reports ok and drops the process id.
StatusResponseLax(findFailed, found, probeOk) ==
    IF findFailed
    THEN [NoResp EXCEPT !.code = 200, !.fields = {"ok", "status", "error"},
                        !.ok = FALSE, !.status = "error",
                        !.error = "discovery failed"]
    ELSE IF found = NoPid
    THEN [NoResp EXCEPT !.code = 200, !.fields = {"ok", "status"},
                        !.ok = FALSE, !.status = "not_running"]
    ELSE IF probeOk
    THEN [NoResp EXCEPT !.code = 200, !.fields = {"ok", "status", "processId"},
                        !.ok = TRUE, !.status = "running", !.processId = found]
    ELSE [NoResp EXCEPT !.code = 200, !.fields = {"ok", "status"},
                        !.ok = TRUE, !.status = "not_responding"]

\* The body the handler returns, from what it observed: whether discovery
\* threw, the process it found (NoPid: none), and the TCP probe's outcome.
StatusResponse(findFailed, found, probeOk) ==
    IF findFailed
    THEN [NoResp EXCEPT !.code = 200, !.fields = {"ok", "status", "error"},
                        !.ok = FALSE, !.status = "error",
                        !.error = "discovery failed"]
    ELSE IF found = NoPid
    THEN [NoResp EXCEPT !.code = 200, !.fields = {"ok", "status"},
                        !.ok = FALSE, !.status = "not_running"]
    ELSE IF probeOk
    THEN [NoResp EXCEPT !.code = 200, !.fields = {"ok", "status", "processId"},
                        !.ok = TRUE, !.status = "running", !.processId = found]
    ELSE [NoResp EXCEPT !.code = 200, !.fields = {"ok", "status", "processId"},
                        !.ok = FALSE, !.status = "not_responding",
                        !.processId = found]

\* The request arrives and calls findExistingMoltbotProcess (first await).
StatusBegin(s) ==
    /\ status[s].pc = "idle"
    /\ status' = [status EXCEPT ![s].pc = "find"]
    /\ UNCHANGED <<gw, nextPid, gatewayToken, restart, boot, containerEnv, configFile,
                   startups, uncaught, backupVars, sessionVars, launch, viewVars, deployVars,
                   shimVars>>

\* Variant: discovery is called outside the try block, so its error escapes.
StatusFindThrowsUnhandled(s) ==
    /\ status[s].pc = "find"
    /\ status' = [status EXCEPT ![s].pc = "crashed", ![s].findFailed = TRUE]
    /\ uncaught' = TRUE
    /\ UNCHANGED <<gw, nextPid, gatewayToken, restart, boot, containerEnv, configFile,
                   startups, backupVars, sessionVars, launch, viewVars, deployVars,
                   shimVars>>

\* Discovery throws: the outer catch answers status 'error'.
StatusFindThrows(s) ==
    /\ status[s].pc = "find"
    /\ status' = [status EXCEPT ![s].pc = "done", ![s].findFailed = TRUE,
                                ![s].resp = StatusResponse(TRUE, NoPid, FALSE)]
    /\ UNCHANGED <<gw, nextPid, gatewayToken, restart, boot, containerEnv, configFile,
                   startups, uncaught, backupVars, sessionVars, launch, viewVars, deployVars,
                   shimVars>>

\* Discovery resolves: no process -> not_running; a process -> probe the port.
StatusFound(s) ==
    /\ status[s].pc = "find"
    /\ \/ /\ LiveProcs = {}
          /\ status' = [status EXCEPT ![s].pc = "done",
                            ![s].resp = StatusResponse(FALSE, NoPid, FALSE)]
       \/ \E p \in LiveProcs :
            status' = [status EXCEPT ![s].pc = "probe", ![s].found = p]
    /\ UNCHANGED <<gw, nextPid, gatewayToken, restart, boot, containerEnv, configFile,
                   startups, uncaught, backupVars, sessionVars, launch, viewVars, deployVars,
                   shimVars>>

\* Variant: waitForPort has no timeout and settles only once the port answers.
StatusProbedNoTimeout(s) ==
    /\ status[s].pc = "probe"
    /\ PortAnswers
    /\ status' = [status EXCEPT ![s].pc = "done", ![s].probeOk = TRUE,
                      ![s].resp = StatusResponse(FALSE, status[s].found, TRUE)]
    /\ UNCHANGED <<gw, nextPid, gatewayToken, restart, boot, containerEnv, configFile,
                   startups, uncaught, backupVars, sessionVars, launch, viewVars, deployVars,
                   shimVars>>

\* Variant: a status request that finds the port silent kills the process.
StatusProbedKills(s) ==
    /\ status[s].pc = "probe"
    /\ status' = [status EXCEPT ![s].pc = "done", ![s].probeOk = PortAnswers,
                      ![s].resp = StatusResponse(FALSE, status[s].found, PortAnswers)]
    /\ gw' = IF PortAnswers THEN gw ELSE [gw EXCEPT ![status[s].found] = "dead"]
    /\ UNCHANGED <<nextPid, gatewayToken, restart, boot, containerEnv, configFile,
                   startups, uncaught, backupVars, sessionVars, launch, viewVars, deployVars,
                   shimVars>>

\* process.waitForPort(18789, {mode: 'tcp', timeout: 5000}) resolves when the
\* port answers and rejects otherwise; either way the handler responds.
StatusProbed(s) ==
    /\ status[s].pc = "probe"
    /\ status' = [status EXCEPT ![s].pc = "done", ![s].probeOk = PortAnswers,
                      ![s].resp = StatusResponse(FALSE, status[s].found, PortAnswers)]
    /\ UNCHANGED <<gw, nextPid, gatewayToken, restart, boot, containerEnv, configFile,
                   startups, uncaught, backupVars, sessionVars, launch, viewVars, deployVars,
                   shimVars>>

\* ----------------------------------------------- POST /api/restart handler
\* Variant: the !token test is dropped.
TokenRejectedLoose(token, configured) == token # configured

\* if (!token || token !== c.env.MOLTBOT_GATEWAY_TOKEN) -> 401
TokenRejected(token, configured) == Falsy(token) \/ token # configured

Unauthorized ==
    [NoResp EXCEPT !.code = 401, !.fields = {"error"},
                   !.error = "Invalid or missing token"]

ServerError(msg) ==
    [NoResp EXCEPT !.code = 500, !.fields = {"error"}, !.error = msg]

\* The success body; previousProcessId is existingProcess?.id, which
\* JSON serialization drops when no process was found.
RestartSuccess(existing) ==
    [NoResp EXCEPT
        !.code = 200,
        !.fields = IF existing = NoPid THEN {"success", "message"}
                   ELSE {"success", "message", "previousProcessId"},
        !.success = TRUE,
        !.message = IF existing = NoPid
                    THEN "No existing process found, starting new instance..."
                    ELSE "Gateway process killed, new instance starting...",
        !.previousProcessId = existing]

\* The request arrives; the token check runs before anything else.
RestartBegin(r) ==
    /\ restart[r].pc = "idle"
    /\ \E tok \in RequestTokens :
         IF TokenRejected(tok, gatewayToken)
         THEN restart' = [restart EXCEPT ![r].pc = "done", ![r].token = tok,
                                         ![r].resp = Unauthorized]
         ELSE restart' = [restart EXCEPT ![r].pc = "find", ![r].token = tok,
                                         ![r].log = <<"find">>]
    /\ UNCHANGED <<gw, nextPid, gatewayToken, status, boot, containerEnv, configFile,
                   startups, uncaught, backupVars, sessionVars, launch, viewVars, deployVars,
                   shimVars>>

\* Variant: the handler awaits the boot promise before it responds.
RestartScheduleAwaited(r, existing, steps) ==
    /\ restart' = [restart EXCEPT ![r].pc = "await-boot",
                       ![r].log = restart[r].log \o steps \o <<"ensure">>]
    /\ boot' = [boot EXCEPT ![r] = [IdleBoot EXCEPT !.pc = "check"]]

\* ensureMoltbotGateway(sandbox, env) is called, its rejection handler is
\* attached, the promise is handed to waitUntil and the success body is
\* returned, all in one synchronous segment: the boot is only scheduled.
RestartSchedule(r, existing, steps) ==
    /\ restart' = [restart EXCEPT ![r].pc = "done",
                       ![r].log = restart[r].log \o steps \o <<"ensure", "respond">>,
                       ![r].resp = RestartSuccess(existing)]
    /\ boot' = [boot EXCEPT ![r] = [IdleBoot EXCEPT !.pc = "check"]]

\* Discovery throws: the outer catch answers 500 with the message.
RestartFindThrows(r) ==
    /\ restart[r].pc = "find"
    /\ restart' = [restart EXCEPT ![r].pc = "done",
                       ![r].log = restart[r].log \o <<"respond">>,
                       ![r].resp = ServerError("discovery failed")]
    /\ UNCHANGED <<gw, nextPid, gatewayToken, status, boot, containerEnv, configFile,
                   startups, uncaught, backupVars, sessionVars, launch, viewVars, deployVars,
                   shimVars>>

\* Discovery resolves. A process: request its termination (await kill()).
\* No process: go straight to scheduling the new gateway.
RestartFound(r) ==
    /\ restart[r].pc = "find"
    /\ \/ /\ LiveProcs = {}
          /\ RestartSchedule(r, NoPid, <<>>)
       \/ /\ \E p \in LiveProcs :
               restart' = [restart EXCEPT ![r].pc = "kill", ![r].existing = p,
                               ![r].log = restart[r].log \o <<"kill">>]
          /\ UNCHANGED boot
    /\ UNCHANGED <<gw, nextPid, gatewayToken, status, containerEnv, configFile,
                   startups, uncaught, backupVars, sessionVars, launch, viewVars, deployVars,
                   shimVars>>

\* Variant: no timer; the new gateway is scheduled as soon as kill() settles.
RestartKilledNoWait(r) ==
    /\ restart[r].pc = "kill"
    /\ \/ gw' = [gw EXCEPT ![restart[r].existing] = "dead"]
       \/ UNCHANGED gw
    /\ RestartSchedule(r, restart[r].existing, <<>>)
    /\ UNCHANGED <<nextPid, gatewayToken, status, containerEnv, configFile,
                   startups, uncaught, backupVars, sessionVars, launch, viewVars, deployVars,
                   shimVars>>

\* Variant: a kill() that throws reaches the outer catch and answers 500.
RestartKilledFatal(r) ==
    /\ restart[r].pc = "kill"
    /\ \/ /\ gw' = [gw EXCEPT ![restart[r].existing] = "dead"]
          /\ restart' = [restart EXCEPT ![r].pc = "wait"]
       \/ /\ restart' = [restart EXCEPT ![r].pc = "done", ![r].killFailed = TRUE,
                              ![r].log = restart[r].log \o <<"respond">>,
                              ![r].resp = ServerError("kill failed")]
          /\ UNCHANGED gw
    /\ UNCHANGED <<nextPid, gatewayToken, status, boot, containerEnv, configFile,
                   startups, uncaught, backupVars, sessionVars, launch, viewVars, deployVars,
                   shimVars>>

\* kill() settles: it terminated the process, or it threw and the error was
\* logged and dropped. Either way the 2 s timer is started next.
RestartKilled(r) ==
    /\ restart[r].pc = "kill"
    /\ \/ /\ gw' = [gw EXCEPT ![restart[r].existing] = "dead"]
          /\ restart' = [restart EXCEPT ![r].pc = "wait"]
       \/ /\ restart' = [restart EXCEPT ![r].pc = "wait", ![r].killFailed = TRUE]
          /\ UNCHANGED gw
    /\ UNCHANGED <<nextPid, gatewayToken, status, boot, containerEnv, configFile,
                   startups, uncaught, backupVars, sessionVars, launch, viewVars, deployVars,
                   shimVars>>

\* The 2 s timer fires: schedule the new gateway and respond.
RestartGraceElapsed(r) ==
    /\ restart[r].pc = "wait"
    /\ RestartSchedule(r, restart[r].existing, <<"wait">>)
    /\ UNCHANGED <<gw, nextPid, gatewayToken, status, containerEnv, configFile,
                   startups, uncaught, backupVars, sessionVars, launch, viewVars, deployVars,
                   shimVars>>

\* Variant: no rejection handler is attached to the boot promise.
RestartBootUnhandled(r) ==
    /\ boot[r].pc = "rejected"
    /\ boot' = [boot EXCEPT ![r].pc = "failed"]
    /\ uncaught' = TRUE
    /\ UNCHANGED <<gw, nextPid, gatewayToken, restart, status, containerEnv, configFile,
                   startups, backupVars, sessionVars, launch, viewVars, deployVars,
                   shimVars>>

\* The rejection handler attached to the boot promise: log and drop.
RestartBootCatch(r) ==
    /\ boot[r].pc = "rejected"
    /\ boot' = [boot EXCEPT ![r].pc = "failed", ![r].caught = TRUE]
    /\ UNCHANGED <<gw, nextPid, gatewayToken, restart, status, containerEnv, configFile,
                   startups, uncaught, backupVars, sessionVars, launch, viewVars, deployVars,
                   shimVars>>

\* ------------------------------------------------ configuration hydration
\* Strings the hydrator searches are sequences of lexical pieces, so that
\* String.includes and the trailing-slash strip are computed, not assumed.
Slash == "/"
WorkerAiUrl == <<"https:", "/", "/", "worker.example", "/", "ai", "/", "v1">>
WorkerAiUrlSlash == WorkerAiUrl \o <<"/">>
GroqUrl == <<"https:", "/", "/", "api.", "groq.com", "/", "openai", "/", "v1">>
CfOpenAiUrl == <<"https:", "/", "/", "gateway.ai.cloudflare.com", "/", "v1",
                 "/", "acct", "/", "gw", "/", "openai">>
CfAnthropicUrl == <<"https:", "/", "/", "gateway.ai.cloudflare.com", "/", "v1",
                    "/", "acct", "/", "gw", "/", "anthropic", "/", "/">>
NoUrl == <<>>

\* s.includes(pat)
Includes(s, pat) ==
    \E i \in 1..(Len(s) - Len(pat) + 1) :
        \A j \in 1..Len(pat) : s[i + j - 1] = pat[j]

\* s.replace(/\/+$/, '')
RECURSIVE StripTrailingSlashes(_)
StripTrailingSlashes(s) ==
    IF s # <<>> /\ s[Len(s)] = Slash
    THEN StripTrailingSlashes(SubSeq(s, 1, Len(s) - 1))
    ELSE s

\* a || b for strings: the first operand unless it is empty or unset
OrElse(a, b) == IF a # <<>> THEN a ELSE b

\* const baseUrl = (AI_GATEWAY_BASE_URL || OPENAI_BASE_URL || ANTHROPIC_BASE_URL || '')
\*                     .replace(/\/+$/, '')
BaseUrl(env) ==
    StripTrailingSlashes(
        OrElse(env.AI_GATEWAY_BASE_URL,
               OrElse(env.OPENAI_BASE_URL, OrElse(env.ANTHROPIC_BASE_URL, NoUrl))))

IsWorkersAI(env) ==
    env.USE_WORKERS_AI = "true" \/ Includes(BaseUrl(env), <<"/", "ai", "/", "v1">>)
IsGroq(env) == Includes(BaseUrl(env), <<"groq.com">>)
IsOpenAI(env) ==
    Includes(BaseUrl(env), <<"/", "openai">>) \/ IsGroq(env) \/ IsWorkersAI(env)

\* Variant: the base-URL tests come before the Workers AI test.
SelectedRuleUrlFirst(env) ==
    IF IsGroq(env) THEN "groq"
    ELSE IF Includes(BaseUrl(env), <<"/", "openai">>) THEN "openai"
    ELSE IF IsWorkersAI(env) THEN "workers-ai"
    ELSE IF BaseUrl(env) # NoUrl THEN "anthropic-url"
    ELSE IF env.ANTHROPIC_API_KEY # "" THEN "anthropic-key"
    ELSE "default"

\* Variant: the direct credential is tested before the base URL.
SelectedRuleKeyFirst(env) ==
    IF IsWorkersAI(env) THEN "workers-ai"
    ELSE IF IsOpenAI(env) THEN (IF IsGroq(env) THEN "groq" ELSE "openai")
    ELSE IF env.ANTHROPIC_API_KEY # "" THEN "anthropic-key"
    ELSE IF BaseUrl(env) # NoUrl THEN "anthropic-url"
    ELSE "default"

\* The branch of the if / else-if chain the hydrator takes.
SelectedRule(env) ==
    IF IsWorkersAI(env) THEN "workers-ai"
    ELSE IF IsOpenAI(env) THEN (IF IsGroq(env) THEN "groq" ELSE "openai")
    ELSE IF BaseUrl(env) # NoUrl THEN "anthropic-url"
    ELSE IF env.ANTHROPIC_API_KEY # "" THEN "anthropic-key"
    ELSE "default"

\* The configuration document (clawdbot.json), reduced to the fields the
\* hydrator reads or writes. An absent field holds its neutral value: NoKey
\* for a credential, "" for a string, 0 for the port, <<>> for a list.
GATEWAY_PORT == 18789
NoKey == "<absent>"
ProviderNames == {"openai", "mistral", "anthropic"}

Model(id, name, ctx) == [id |-> id, name |-> name, contextWindow |-> ctx]
Provider(url, api, key, models) ==
    [baseUrl |-> url, api |-> api, apiKey |-> key, models |-> models]
\* A credential written from an expression that may be undefined:
\* JSON.stringify drops the field then.
KeyOrAbsent(k) == IF k = "" THEN NoKey ELSE k

NoGateway == [port |-> 0, mode |-> "", trustedProxies |-> <<>>,
              chatCompletions |-> FALSE, token |-> "", allowInsecureAuth |-> FALSE]
NoProviders == [n \in {} |-> Provider(NoUrl, "", NoKey, <<>>)]
NoAllow == [k \in {} |-> ""]
EmptyDoc == [providers |-> NoProviders, allow |-> NoAllow, primary |-> "",
             gateway |-> NoGateway]

\* delete obj[key]
Without(f, key) == [k \in DOMAIN f \ {key} |-> f[k]]
\* obj[key] = value
With(f, key, value) == [k \in DOMAIN f \cup {key} |-> IF k = key THEN value ELSE f[k]]
\* obj[k] = v for each pair of the sequence, in order
RECURSIVE WithAll(_, _)
WithAll(f, pairs) ==
    IF pairs = <<>> THEN f
    ELSE WithAll(With(f, pairs[1][1], pairs[1][2]), Tail(pairs))

\* What the file on disk holds: text that JSON.parse rejects (or a file that
\* cannot be read), the JSON value null, another JSON value that is not an
\* object (a number, a string, a boolean), a JSON array, or a document.
Unparseable == [kind |-> "unparseable", doc |-> EmptyDoc]
JsonNull == [kind |-> "null", doc |-> EmptyDoc]
JsonScalar == [kind |-> "scalar", doc |-> EmptyDoc]
JsonArray == [kind |-> "array", doc |-> EmptyDoc]
DocFile(d) == [kind |-> "doc", doc |-> d]
\* try { config = JSON.parse(readFileSync(...)) } catch { /* config = {} */ }
\* The catch covers only a throw: a parsed value that is not an object is
\* kept as config.
ParseConfig(file) == IF file.kind = "doc" THEN file.doc ELSE EmptyDoc
\* config.agents = config.agents || {} throws a TypeError when config is
\* null; on a number, string or boolean the assignment is dropped and the
\* next line, config.agents.defaults, throws. node exits non-zero and, under
\* set -e, so does the script.
HydrateThrows(file) == file.kind \in {"null", "scalar"}
\* On an array the assignments succeed as properties of the array object,
\* which JSON.stringify leaves out: the file written is the array itself.
HydrateLost(file) == file.kind = "array"

\* The cleanup of a broken provider entry kept from a previous run.
CleanProviders(providers) ==
    IF "anthropic" \in DOMAIN providers
       /\ \E i \in 1..Len(providers["anthropic"].models) :
              providers["anthropic"].models[i].name = ""
    THEN Without(providers, "anthropic")
    ELSE providers

\* Variant: the internal proxy address is pushed onto the persisted list
\* instead of replacing it.
HydrateGatewayPush(g, token, devMode) ==
    [g EXCEPT !.port = GATEWAY_PORT,
              !.mode = "local",
              !.trustedProxies = Append(g.trustedProxies, "10.1.0.0"),
              !.chatCompletions = TRUE,
              !.token = IF Falsy(token) THEN g.token ELSE token,
              !.allowInsecureAuth = IF devMode = "true" THEN TRUE
                                    ELSE g.allowInsecureAuth]

\* Variant: a persisted port and proxy list are kept when present.
HydrateGatewayKeep(g, token, devMode) ==
    [g EXCEPT !.port = IF g.port # 0 THEN g.port ELSE GATEWAY_PORT,
              !.mode = "local",
              !.trustedProxies = IF g.trustedProxies # <<>> THEN g.trustedProxies
                                 ELSE <<"10.1.0.0">>,
              !.chatCompletions = TRUE,
              !.token = IF Falsy(token) THEN g.token ELSE token,
              !.allowInsecureAuth = IF devMode = "true" THEN TRUE
                                    ELSE g.allowInsecureAuth]

\* Supervisor-owned gateway fields, overwritten whatever was persisted.
HydrateGateway(g, token, devMode) ==
    [g EXCEPT !.port = GATEWAY_PORT,
              !.mode = "local",
              !.trustedProxies = <<"10.1.0.0">>,
              !.chatCompletions = TRUE,
              !.token = IF Falsy(token) THEN g.token ELSE token,
              !.allowInsecureAuth = IF devMode = "true" THEN TRUE
                                    ELSE g.allowInsecureAuth]

WorkersAiModels ==
    << Model("llama-3.1-8b-instruct", "Llama 3.1 8B", 128000),
       Model("mistral-7b-instruct", "Mistral 7B", 32000),
       Model("llama-3.2-3b-instruct", "Llama 3.2 3B", 8192) >>
GroqModels ==
    << Model("llama-3.3-70b-versatile", "Llama 3.3 70B", 128000),
       Model("llama-3.1-8b-instant", "Llama 3.1 8B", 128000),
       Model("mixtral-8x7b-32768", "Mixtral 8x7B", 32768) >>
MistralModels ==
    << Model("mistral-small-latest", "Mistral Small", 32000),
       Model("mistral-large-latest", "Mistral Large", 128000) >>
OpenAiModels ==
    << Model("gpt-5.2", "GPT-5.2", 200000),
       Model("gpt-5", "GPT-5", 200000),
       Model("gpt-4.5-preview", "GPT-4.5 Preview", 128000) >>
AnthropicUrlModels ==
    << Model("claude-opus-4-5-20251101", "Claude Opus 4.5", 200000),
       Model("claude-sonnet-4-5-20250929", "Claude Sonnet 4.5", 200000),
       Model("claude-haiku-4-5-20251001", "Claude Haiku 4.5", 200000) >>
AnthropicKeyModels ==
    << Model("claude-3-5-sonnet-latest", "Claude 3.5 Sonnet", 200000),
       Model("claude-3-5-haiku-latest", "Claude 3.5 Haiku", 200000),
       Model("claude-3-opus-latest", "Claude 3 Opus", 200000) >>
MistralUrl == <<"https:", "/", "/", "api.mistral.ai", "/", "v1">>
AnthropicUrl == <<"https:", "/", "/", "api.anthropic.com">>

\* Variant: the smallest model of the catalog is made primary.
ApplyWorkersAiSmallPrimary(doc, env) ==
    [doc EXCEPT
        !.providers = With(doc.providers, "openai",
            Provider(BaseUrl(env), "openai-responses",
                     IF env.OPENAI_API_KEY # "" THEN env.OPENAI_API_KEY ELSE "workers-ai",
                     WorkersAiModels)),
        !.allow = WithAll(doc.allow,
            << <<"openai/llama-3.1-8b-instruct", "Llama 3.1 8B">>,
               <<"openai/mistral-7b-instruct", "Mistral 7B">>,
               <<"openai/llama-3.2-3b-instruct", "Llama 3.2 3B">> >>),
        !.primary = "openai/llama-3.2-3b-instruct"]

\* if (isWorkersAI) { ... }
ApplyWorkersAi(doc, env) ==
    [doc EXCEPT
        !.providers = With(doc.providers, "openai",
            Provider(BaseUrl(env), "openai-responses",
                     IF env.OPENAI_API_KEY # "" THEN env.OPENAI_API_KEY ELSE "workers-ai",
                     WorkersAiModels)),
        !.allow = WithAll(doc.allow,
            << <<"openai/llama-3.1-8b-instruct", "Llama 3.1 8B">>,
               <<"openai/mistral-7b-instruct", "Mistral 7B">>,
               <<"openai/llama-3.2-3b-instruct", "Llama 3.2 3B">> >>),
        !.primary = "openai/llama-3.1-8b-instruct"]

\* Variant: the Mistral fallback is written and preferred whether or not
\* MISTRAL_API_KEY is set.
ApplyGroqAlwaysMistral(doc, env) ==
    LET apiKey == IF env.AI_GATEWAY_API_KEY # "" THEN env.AI_GATEWAY_API_KEY
                  ELSE env.OPENAI_API_KEY
        p1 == With(doc.providers, "openai",
                   Provider(BaseUrl(env), "openai-responses", KeyOrAbsent(apiKey),
                            GroqModels))
        p2 == With(p1, "mistral",
                   Provider(MistralUrl, "openai-responses",
                            KeyOrAbsent(env.MISTRAL_API_KEY), MistralModels))
        a1 == WithAll(doc.allow,
                << <<"openai/llama-3.3-70b-versatile", "Llama 3.3 70B">>,
                   <<"openai/llama-3.1-8b-instant", "Llama 3.1 8B">>,
                   <<"openai/mixtral-8x7b-32768", "Mixtral 8x7B">>,
                   <<"mistral/mistral-small-latest", "Mistral Small">>,
                   <<"mistral/mistral-large-latest", "Mistral Large">> >>)
    IN [doc EXCEPT !.providers = p2, !.allow = a1,
                   !.primary = "mistral/mistral-small-latest"]

\* else if (isOpenAI) { if (isGroq) { ... } }
ApplyGroq(doc, env) ==
    LET apiKey == IF env.AI_GATEWAY_API_KEY # "" THEN env.AI_GATEWAY_API_KEY
                  ELSE env.OPENAI_API_KEY
        mistral == env.MISTRAL_API_KEY # ""
        p1 == With(doc.providers, "openai",
                   Provider(BaseUrl(env), "openai-responses", KeyOrAbsent(apiKey),
                            GroqModels))
        p2 == IF mistral
              THEN With(p1, "mistral",
                        Provider(MistralUrl, "openai-responses",
                                 env.MISTRAL_API_KEY, MistralModels))
              ELSE p1
        a1 == WithAll(doc.allow,
                << <<"openai/llama-3.3-70b-versatile", "Llama 3.3 70B">>,
                   <<"openai/llama-3.1-8b-instant", "Llama 3.1 8B">>,
                   <<"openai/mixtral-8x7b-32768", "Mixtral 8x7B">> >>)
        a2 == IF mistral
              THEN WithAll(a1,
                     << <<"mistral/mistral-small-latest", "Mistral Small">>,
                        <<"mistral/mistral-large-latest", "Mistral Large">> >>)
              ELSE a1
    IN [doc EXCEPT !.providers = p2, !.allow = a2,
                   !.primary = IF mistral THEN "mistral/mistral-small-latest"
                               ELSE "openai/llama-3.3-70b-versatile"]

\* else if (isOpenAI) { ... else { generic OpenAI-compatible provider } }
ApplyOpenAi(doc, env) ==
    LET apiKey == IF env.AI_GATEWAY_API_KEY # "" THEN env.AI_GATEWAY_API_KEY
                  ELSE env.OPENAI_API_KEY
    IN [doc EXCEPT
        !.providers = With(doc.providers, "openai",
            Provider(BaseUrl(env), "openai-responses", KeyOrAbsent(apiKey),
                     OpenAiModels)),
        !.allow = WithAll(doc.allow,
            << <<"openai/gpt-5.2", "GPT-5.2">>,
               <<"openai/gpt-5", "GPT-5">>,
               <<"openai/gpt-4.5-preview", "GPT-4.5">> >>),
        !.primary = "openai/gpt-5.2"]

\* Variant: the provider object is merged into the persisted entry, so a
\* persisted credential survives when ANTHROPIC_API_KEY is not set.
ApplyAnthropicUrlMerge(doc, env) ==
    [doc EXCEPT
        !.providers = With(doc.providers, "anthropic",
            Provider(BaseUrl(env), "anthropic-messages",
                     IF env.ANTHROPIC_API_KEY # "" THEN env.ANTHROPIC_API_KEY
                     ELSE IF "anthropic" \in DOMAIN doc.providers
                          THEN doc.providers["anthropic"].apiKey
                          ELSE NoKey,
                     AnthropicUrlModels)),
        !.allow = WithAll(doc.allow,
            << <<"anthropic/claude-opus-4-5-20251101", "Opus 4.5">>,
               <<"anthropic/claude-sonnet-4-5-20250929", "Sonnet 4.5">>,
               <<"anthropic/claude-haiku-4-5-20251001", "Haiku 4.5">> >>),
        !.primary = "anthropic/claude-opus-4-5-20251101"]

\* else if (baseUrl) { ... }
ApplyAnthropicUrl(doc, env) ==
    [doc EXCEPT
        !.providers = With(doc.providers, "anthropic",
            Provider(BaseUrl(env), "anthropic-messages",
                     KeyOrAbsent(env.ANTHROPIC_API_KEY), AnthropicUrlModels)),
        !.allow = WithAll(doc.allow,
            << <<"anthropic/claude-opus-4-5-20251101", "Opus 4.5">>,
               <<"anthropic/claude-sonnet-4-5-20250929", "Sonnet 4.5">>,
               <<"anthropic/claude-haiku-4-5-20251001", "Haiku 4.5">> >>),
        !.primary = "anthropic/claude-opus-4-5-20251101"]

\* else if (process.env.ANTHROPIC_API_KEY) { ... }
ApplyAnthropicKey(doc, env) ==
    [doc EXCEPT
        !.providers = With(doc.providers, "anthropic",
            Provider(AnthropicUrl, "anthropic-messages", env.ANTHROPIC_API_KEY,
                     AnthropicKeyModels)),
        !.allow = WithAll(doc.allow,
            << <<"anthropic/claude-3-5-sonnet-latest", "Sonnet 3.5">>,
               <<"anthropic/claude-3-5-haiku-latest", "Haiku 3.5">>,
               <<"anthropic/claude-3-opus-latest", "Opus 3">> >>),
        !.primary = "anthropic/claude-3-5-sonnet-latest"]

\* else { ... }
ApplyDefault(doc, env) == [doc EXCEPT !.primary = "anthropic/claude-opus-4-5"]

\* The provider section of the hydrator: the branch SelectedRule picks.
ApplyProviderRule(doc, env) ==
    LET rule == SelectedRule(env)
    IN CASE rule = "workers-ai" -> ApplyWorkersAi(doc, env)
         [] rule = "groq" -> ApplyGroq(doc, env)
         [] rule = "openai" -> ApplyOpenAi(doc, env)
         [] rule = "anthropic-url" -> ApplyAnthropicUrl(doc, env)
         [] rule = "anthropic-key" -> ApplyAnthropicKey(doc, env)
         [] OTHER -> ApplyDefault(doc, env)

\* The whole node program: parse (or start empty), drop a broken anthropic
\* provider, overwrite the gateway fields, apply the provider rule. The
\* result is what writeFileSync stores.
Hydrate(file, env, token) ==
    LET config == ParseConfig(file)
        cleaned == [config EXCEPT !.providers = CleanProviders(config.providers)]
        gated == [cleaned EXCEPT
                     !.gateway = HydrateGateway(cleaned.gateway, token,
                                                env.CLAWDBOT_DEV_MODE)]
    IN IF HydrateLost(file) THEN file ELSE DocFile(ApplyProviderRule(gated, env))

\* ------------------------------------- the startup sequence (ensureRunning)
\* The container starts the sequence on its own behalf (owner 0); a restart
\* request starts it through RestartSchedule.
StartupBegin ==
    /\ boot[0].pc \in {"none", "ok", "rejected"}
    /\ startups < MaxStartups
    /\ startups' = startups + 1
    /\ boot' = [boot EXCEPT ![0] = [IdleBoot EXCEPT !.pc = "check"]]
    /\ UNCHANGED <<gw, nextPid, gatewayToken, restart, status, containerEnv, configFile,
                   uncaught, backupVars, sessionVars, launch, viewVars, deployVars,
                   shimVars>>

\* ----------------------------------------------------------- backup restore
\* A .last-sync marker: absent, or a line of text that date -d either parses
\* (a timestamp: whole seconds and a fraction of a second) or rejects.
NoMarker == [present |-> FALSE, parses |-> FALSE, sec |-> 0, frac |-> 0]
GarbageMarker == [present |-> TRUE, parses |-> FALSE, sec |-> 0, frac |-> 0]
Stamp(sec, frac) == [present |-> TRUE, parses |-> TRUE, sec |-> sec, frac |-> frac]
SyncMarkers == {NoMarker, GarbageMarker, Stamp(1, 0), Stamp(1, 5), Stamp(2, 0)}

\* $(date -d "$TIME" +%s 2>/dev/null || echo "0"): epoch seconds, the
\* fraction dropped; 0 for text date cannot parse.
Epoch(m) == IF m.parses THEN m.sec ELSE 0

\* Variant: a remote marker that is not older than the local one restores.
ShouldRestoreOnEqual(remote, local) ==
    IF ~remote.present THEN FALSE
    ELSE IF ~local.present THEN TRUE
    ELSE Epoch(remote) >= Epoch(local)

\* should_restore_from_r2
ShouldRestoreFromR2(remote, local) ==
    IF ~remote.present THEN FALSE
    ELSE IF ~local.present THEN TRUE
    ELSE Epoch(remote) > Epoch(local)

\* The bucket: not mounted, mounted without a configuration backup, or
\* holding one in the nested ($BACKUP_DIR/clawdbot/) or the legacy (flat)
\* layout; its .last-sync marker; whether $BACKUP_DIR/skills is non-empty.
Backup(layout, config, sync, hasSkills) ==
    [layout |-> layout, config |-> config, sync |-> sync, hasSkills |-> hasSkills]
HasConfigBackup(b) == b.layout \in {"nested", "legacy"}

\* Variant: the already-running check stands after the restore section, so
\* a newer backup is restored before the script exits.
ScriptCheckAfterRestore(o) ==
    /\ boot[o].pc = "check"
    /\ IF LiveProcs # {} /\ PortAnswers
       THEN LET config == HasConfigBackup(backup)
                              /\ ShouldRestoreFromR2(backup.sync, localSync)
            IN /\ boot' = [boot EXCEPT ![o].pc = "ok", ![o].sawHealthy = TRUE]
               /\ configFile' = IF config THEN backup.config ELSE configFile
               /\ localSync' = IF config THEN backup.sync ELSE localSync
       ELSE /\ boot' = [boot EXCEPT ![o].pc = "restore"]
            /\ UNCHANGED <<configFile, localSync>>
    /\ UNCHANGED <<gw, nextPid, gatewayToken, restart, status, containerEnv,
                   startups, uncaught, backup, skills, sessionVars, launch, viewVars,
                   deployVars, shimVars>>

\* Variant: the already-running check is missing; the script always goes on.
ScriptCheckNoExit(o) ==
    /\ boot[o].pc = "check"
    /\ boot' = [boot EXCEPT ![o].pc = "restore"]
    /\ UNCHANGED <<gw, nextPid, gatewayToken, restart, status, containerEnv, configFile,
                   startups, uncaught, backupVars, sessionVars, launch, viewVars, deployVars,
                   shimVars>>

\* if pgrep -f "clawdbot gateway" && curl --max-time 3 localhost:18789/health
\* then exit 0: the running gateway is kept and nothing else is done.
ScriptCheck(o) ==
    /\ boot[o].pc = "check"
    /\ IF LiveProcs # {} /\ PortAnswers
       THEN boot' = [boot EXCEPT ![o].pc = "ok", ![o].sawHealthy = TRUE]
       ELSE boot' = [boot EXCEPT ![o].pc = "restore"]
    /\ UNCHANGED <<gw, nextPid, gatewayToken, restart, status, containerEnv, configFile,
                   startups, uncaught, backupVars, sessionVars, launch, viewVars, deployVars,
                   shimVars>>

\* Variant: the marker is not copied with the configuration.
ScriptRestoreKeepsMarker(o) ==
    /\ boot[o].pc = "restore"
    /\ LET config == HasConfigBackup(backup)
                         /\ ShouldRestoreFromR2(backup.sync, localSync)
           skill == backup.hasSkills /\ ShouldRestoreFromR2(backup.sync, localSync)
           log1 == IF config THEN <<"restore">> ELSE <<>>
           log2 == IF skill THEN Append(log1, "skills") ELSE log1
       IN /\ configFile' = IF config THEN backup.config ELSE configFile
          /\ skills' = IF skill THEN "restored" ELSE skills
          /\ boot' = [boot EXCEPT ![o].pc = "hydrate", ![o].log = log2]
    /\ UNCHANGED <<gw, nextPid, gatewayToken, restart, status, containerEnv, startups,
                   uncaught, backup, localSync, sessionVars, launch, viewVars, deployVars,
                   shimVars>>

\* Variant: the script goes from the restore straight to the launch.
ScriptRestoreSkipsHydrate(o) ==
    /\ boot[o].pc = "restore"
    /\ boot' = [boot EXCEPT ![o].pc = "cleanup"]
    /\ UNCHANGED <<gw, nextPid, gatewayToken, restart, status, containerEnv, configFile,
                   startups, uncaught, backupVars, sessionVars, launch, viewVars, deployVars,
                   shimVars>>

\* RESTORE FROM R2 BACKUP: the configuration (with the marker) when a backup
\* exists and should_restore_from_r2 says so, then the skills under the same
\* test, evaluated again on the markers as they are by then.
ScriptRestore(o) ==
    /\ boot[o].pc = "restore"
    /\ LET config == HasConfigBackup(backup)
                         /\ ShouldRestoreFromR2(backup.sync, localSync)
           local == IF config THEN backup.sync ELSE localSync
           skill == backup.hasSkills /\ ShouldRestoreFromR2(backup.sync, local)
           log1 == IF config THEN <<"restore">> ELSE <<>>
           log2 == IF skill THEN Append(log1, "skills") ELSE log1
       IN /\ configFile' = IF config THEN backup.config ELSE configFile
          /\ localSync' = local
          /\ skills' = IF skill THEN "restored" ELSE skills
          /\ boot' = [boot EXCEPT ![o].pc = "hydrate", ![o].log = log2]
    /\ UNCHANGED <<gw, nextPid, gatewayToken, restart, status, containerEnv, startups,
                   uncaught, backup, sessionVars, launch, viewVars, deployVars,
                   shimVars>>

\* node << EOFNODE ... EOFNODE: rewrite the configuration file. Under set -e
\* a node failure ends the script before any gateway is launched.
ScriptHydrate(o) ==
    /\ boot[o].pc = "hydrate"
    /\ IF HydrateThrows(configFile)
       THEN /\ boot' = [boot EXCEPT ![o].pc = "rejected"]
            /\ UNCHANGED configFile
       ELSE /\ configFile' = Hydrate(configFile, containerEnv, gatewayToken)
            /\ boot' = [boot EXCEPT ![o].pc = "cleanup",
                                    ![o].log = Append(@, "hydrate")]
    /\ UNCHANGED <<gw, nextPid, gatewayToken, restart, status, containerEnv, startups,
                   uncaught, backupVars, sessionVars, launch, viewVars, deployVars,
                   shimVars>>

\* Variant: the cleanup section is skipped; the script goes on to exec.
ScriptCleanupNoKill(o) ==
    /\ boot[o].pc = "cleanup"
    /\ boot' = [boot EXCEPT ![o].pc = "exec"]
    /\ UNCHANGED <<gw, nextPid, gatewayToken, restart, status, containerEnv, configFile,
                   startups, uncaught, backupVars, sessionVars, launch, viewVars, deployVars,
                   shimVars>>

\* pkill -9 -f "clawdbot gateway"; sleep 2; fuser -k 18789/tcp; rm -f locks;
\* sleep 1: every gateway process is terminated and the port is released.
ScriptCleanup(o) ==
    /\ boot[o].pc = "cleanup"
    /\ gw' = [p \in Pids |-> IF p \in LiveProcs THEN "dead" ELSE gw[p]]
    /\ boot' = [boot EXCEPT ![o].pc = "exec"]
    /\ UNCHANGED <<nextPid, gatewayToken, restart, status, containerEnv, configFile,
                   startups, uncaught, backupVars, sessionVars, launch, viewVars, deployVars,
                   shimVars>>

\* The arguments of a gateway launch; token is NoTokenArg without --token.
NoTokenArg == "<no --token>"
NoLaunch == [port |-> 0, bind |-> "", allowUnconfigured |-> FALSE, token |-> NoTokenArg]
\* Variant: --token is passed whatever the variable holds.
LaunchArgsAlwaysToken(token) ==
    [port |-> GATEWAY_PORT, bind |-> "lan", allowUnconfigured |-> TRUE,
     token |-> token]

\* BIND_MODE="lan"; if [ -n "$CLAWDBOT_GATEWAY_TOKEN" ] then ... --token "$..."
LaunchArgs(token) ==
    [port |-> GATEWAY_PORT, bind |-> "lan", allowUnconfigured |-> TRUE,
     token |-> IF Falsy(token) THEN NoTokenArg ELSE token]

\* exec clawdbot gateway --port 18789 ... : the gateway process exists from
\* here on and has yet to bind its port.
ScriptExec(o) ==
    /\ boot[o].pc = "exec"
    /\ nextPid <= MaxPid
    /\ gw' = [gw EXCEPT ![nextPid] = "starting"]
    /\ launch' = [launch EXCEPT ![nextPid] = LaunchArgs(gatewayToken)]
    /\ nextPid' = nextPid + 1
    /\ boot' = [boot EXCEPT ![o].pc = "wait", ![o].pid = nextPid,
                            ![o].log = Append(@, "launch")]
    /\ UNCHANGED <<gatewayToken, restart, status, containerEnv, configFile, startups,
                   uncaught, backupVars, sessionVars, viewVars, deployVars,
                   shimVars>>

\* exec fails (the gateway binary is missing): the script exits non-zero.
ScriptExecFails(o) ==
    /\ boot[o].pc = "exec"
    /\ boot' = [boot EXCEPT ![o].pc = "rejected"]
    /\ UNCHANGED <<gw, nextPid, gatewayToken, restart, status, containerEnv, configFile,
                   startups, uncaught, backupVars, sessionVars, launch, viewVars, deployVars,
                   shimVars>>

\* The launched gateway binds port 18789; if the port is still held the bind
\* fails and the process exits.
GatewayBind(p) ==
    /\ gw[p] = "starting"
    /\ gw' = [gw EXCEPT ![p] = IF PortHolders = {} THEN "serving" ELSE "dead"]
    /\ UNCHANGED <<nextPid, gatewayToken, restart, status, boot, containerEnv, configFile,
                   startups, uncaught, backupVars, sessionVars, launch, viewVars, deployVars,
                   shimVars>>

\* A serving gateway stops answering while its process stays alive.
GatewayHang(p) ==
    /\ gw[p] = "serving"
    /\ gw' = [gw EXCEPT ![p] = "hung"]
    /\ UNCHANGED <<nextPid, gatewayToken, restart, status, boot, containerEnv, configFile,
                   startups, uncaught, backupVars, sessionVars, launch, viewVars, deployVars,
                   shimVars>>

\* Variant: ensureRunning resolves without waiting for the gateway's port.
EnsureSettledAlwaysOk(o) ==
    /\ boot[o].pc = "wait"
    /\ boot' = [boot EXCEPT ![o].pid = NoPid, ![o].pc = "ok"]
    /\ UNCHANGED <<gw, nextPid, gatewayToken, restart, status, containerEnv, configFile,
                   startups, uncaught, backupVars, sessionVars, launch, viewVars, deployVars,
                   shimVars>>

\* ensureRunning settles: it resolves once the launched gateway answers on
\* its port, and rejects (a launch failure) when the gateway died or did not
\* answer within the startup timeout.
EnsureSettled(o) ==
    /\ boot[o].pc = "wait"
    /\ boot' = [boot EXCEPT ![o].pid = NoPid,
                            ![o].pc = IF gw[boot[o].pid] = "serving" THEN "ok"
                                      ELSE "rejected"]
    /\ UNCHANGED <<gw, nextPid, gatewayToken, restart, status, containerEnv, configFile,
                   startups, uncaught, backupVars, sessionVars, launch, viewVars, deployVars,
                   shimVars>>

\* ------------------------------------------------------------ session store
\* Transcript length and history limit explored.
MaxLines == 5
MaxLimit == 3

SessionKeys == {"agent:main:telegram:123", "agent:main:discord:456"}

\* A line of text: JSON encoding a message record, or text JSON.parse rejects.
JsonLine(role, content) == [json |-> TRUE, role |-> role, content |-> content]
CorruptLine == [json |-> FALSE, role |-> "", content |-> ""]
TranscriptLines ==
    {JsonLine("user", "Hello"), JsonLine("assistant", "Hi there!"), CorruptLine}
Transcripts == UNION {[1..n -> TranscriptLines] : n \in 0..MaxLines}

\* What the listing subprocess prints: a JSON document with the sessions, or
\* text that is not JSON.
JsonListing(keys) == [json |-> TRUE, text |-> "{...}", sessions |-> keys]
NotJsonListing == [json |-> FALSE, text |-> "not valid json", sessions |-> <<>>]
Listings ==
    {NotJsonListing, JsonListing(<<>>),
     JsonListing(<<"agent:main:telegram:123", "agent:main:discord:456">>)}

NoSessionResp == [code |-> 0, fields |-> {}, sessions |-> <<>>, count |-> 0,
                  raw |-> "", messages |-> <<>>, error |-> ""]
\* calls: the subprocesses the request started, in order.
IdleSession == [pc |-> "idle", key |-> "", limit |-> 0, calls |-> <<>>,
                resp |-> NoSessionResp]

\* Variant: output that is not JSON fails the request.
ListResponseStrict(out) ==
    IF out.json
    THEN [NoSessionResp EXCEPT !.code = 200, !.fields = {"sessions", "count"},
                               !.sessions = out.sessions, !.count = Len(out.sessions)]
    ELSE [NoSessionResp EXCEPT !.code = 500, !.fields = {"error"},
                               !.error = "Failed to parse sessions"]

\* listSessions: the parsed listing, or no session and the raw output.
ListResponse(out) ==
    IF out.json
    THEN [NoSessionResp EXCEPT !.code = 200, !.fields = {"sessions", "count"},
                               !.sessions = out.sessions, !.count = Len(out.sessions)]
    ELSE [NoSessionResp EXCEPT !.code = 200, !.fields = {"sessions", "count", "raw"},
                               !.raw = out.text]

\* Variant: the first k lines.
FirstLines(lines, k) == SubSeq(lines, 1, IF Len(lines) <= k THEN Len(lines) ELSE k)

\* tail -n k: the last k lines of the file, all of them when it has fewer.
RECURSIVE LastLines(_, _)
LastLines(lines, k) ==
    IF Len(lines) <= k THEN lines ELSE LastLines(Tail(lines), k)

\* Variant: the first line that fails to parse ends the read.
RECURSIVE ParseLinesAbort(_)
ParseLinesAbort(lines) ==
    IF lines = <<>> THEN <<>>
    ELSE IF Head(lines).json
    THEN <<[role |-> Head(lines).role, content |-> Head(lines).content]>>
             \o ParseLinesAbort(Tail(lines))
    ELSE <<>>

\* Each line is parsed on its own; a line that fails to parse is skipped.
RECURSIVE ParseLines(_)
ParseLines(lines) ==
    IF lines = <<>> THEN <<>>
    ELSE IF Head(lines).json
    THEN <<[role |-> Head(lines).role, content |-> Head(lines).content]>>
             \o ParseLines(Tail(lines))
    ELSE ParseLines(Tail(lines))

SessionNotFound ==
    [NoSessionResp EXCEPT !.code = 404, !.fields = {"error"},
                          !.error = "Session not found"]
HistoryResponse(messages) ==
    [NoSessionResp EXCEPT !.code = 200, !.fields = {"messages"},
                          !.messages = messages]

\* GET sessions: one listing subprocess, then the response.
ListSessions ==
    /\ session.pc = "idle"
    /\ session' = [IdleSession EXCEPT !.pc = "done", !.calls = <<"sessions">>,
                                      !.resp = ListResponse(sessionStore.listing)]
    /\ UNCHANGED <<gw, nextPid, gatewayToken, restart, status, boot, containerEnv,
                   configFile, startups, uncaught, backupVars, sessionStore, launch, viewVars, deployVars,
                   shimVars>>

\* GET sessions/:key/history, step (a): the listing is invoked to learn the
\* path of the session index.
GetHistoryBegin(key, limit) ==
    /\ session.pc = "idle"
    /\ session' = [IdleSession EXCEPT !.pc = "index", !.key = key, !.limit = limit,
                                      !.calls = <<"sessions">>]
    /\ UNCHANGED <<gw, nextPid, gatewayToken, restart, status, boot, containerEnv,
                   configFile, startups, uncaught, backupVars, sessionStore, launch, viewVars, deployVars,
                   shimVars>>

\* Variant: a key the index does not hold yields an empty history.
GetHistoryIndexLenient ==
    /\ session.pc = "index"
    /\ IF session.key \in sessionStore.index
       THEN session' = [session EXCEPT !.pc = "tail", !.calls = Append(@, "cat")]
       ELSE session' = [session EXCEPT !.pc = "done", !.calls = Append(@, "cat"),
                                       !.resp = HistoryResponse(<<>>)]
    /\ UNCHANGED <<gw, nextPid, gatewayToken, restart, status, boot, containerEnv,
                   configFile, startups, uncaught, backupVars, sessionStore, launch, viewVars, deployVars,
                   shimVars>>

\* Step (b): the index is read; a key it does not hold ends the request
\* with SessionNotFound.
GetHistoryIndex ==
    /\ session.pc = "index"
    /\ IF session.key \in sessionStore.index
       THEN session' = [session EXCEPT !.pc = "tail", !.calls = Append(@, "cat")]
       ELSE session' = [session EXCEPT !.pc = "done", !.calls = Append(@, "cat"),
                                       !.resp = SessionNotFound]
    /\ UNCHANGED <<gw, nextPid, gatewayToken, restart, status, boot, containerEnv,
                   configFile, startups, uncaught, backupVars, sessionStore, launch, viewVars, deployVars,
                   shimVars>>

\* Step (c): the last `limit` lines of the transcript are read and parsed.
GetHistoryRead ==
    /\ session.pc = "tail"
    /\ session' = [session EXCEPT
           !.pc = "done", !.calls = Append(@, "tail"),
           !.resp = HistoryResponse(
                        ParseLines(LastLines(sessionStore.transcript, session.limit)))]
    /\ UNCHANGED <<gw, nextPid, gatewayToken, restart, status, boot, containerEnv,
                   configFile, startups, uncaught, backupVars, sessionStore, launch, viewVars, deployVars,
                   shimVars>>

\* ----------------------------------------------- session message rendering
\* Content parts explored per message.
MaxParts == 2

\* A field the JSON record does not carry.
NoText == "<undefined>"
Truthy(t) == t \notin {NoText, ""}

\* content: a string, an array of typed parts, or anything else (absent,
\* null, an object).
ContentPart(type, text) == [type |-> type, text |-> text]
ContentParts ==
    {ContentPart(ty, tx) : ty \in {"text", "image"}, tx \in {NoText, "", "Hello", "Hi"}}
StringContent(t) == [kind |-> "string", text |-> t, parts |-> <<>>]
ArrayContent(parts) == [kind |-> "array", text |-> NoText, parts |-> parts]
OtherContent == [kind |-> "other", text |-> NoText, parts |-> <<>>]
Contents ==
    {OtherContent, StringContent(""), StringContent("Hello")}
    \cup {ArrayContent(ps) : ps \in UNION {[1..n -> ContentParts] : n \in 0..MaxParts}}
SessionMessages == [content : Contents, raw : {NoText, "", "raw text"}]

\* msg.content.find(p => p.type === 'text'): the index of the first such
\* part, 0 when there is none.
RECURSIVE FindTextPart(_, _)
FindTextPart(parts, i) ==
    IF i > Len(parts) THEN 0
    ELSE IF parts[i].type = "text" THEN i
    ELSE FindTextPart(parts, i + 1)

\* Variant: the raw field is looked at before the content parts.
GetMessageTextRawFirst(msg) ==
    IF msg.content.kind = "string" THEN msg.content.text
    ELSE IF Truthy(msg.raw) THEN msg.raw
    ELSE IF msg.content.kind = "array"
    THEN LET i == FindTextPart(msg.content.parts, 1)
         IN IF i # 0 /\ Truthy(msg.content.parts[i].text)
            THEN msg.content.parts[i].text ELSE "[complex content]"
    ELSE "[no content]"

\* getMessageText
GetMessageText(msg) ==
    IF msg.content.kind = "string" THEN msg.content.text
    ELSE IF msg.content.kind = "array"
    THEN LET i == FindTextPart(msg.content.parts, 1)
         IN IF i # 0 /\ Truthy(msg.content.parts[i].text)
            THEN msg.content.parts[i].text ELSE "[complex content]"
    ELSE IF Truthy(msg.raw) THEN msg.raw
    ELSE "[no content]"

NotShown == "<not rendered>"
\* The panel renders the message.
RenderMessage ==
    /\ shown = NotShown
    /\ shown' = GetMessageText(message)
    /\ UNCHANGED <<gw, nextPid, gatewayToken, restart, status, boot, containerEnv,
                   configFile, startups, uncaught, backupVars, sessionVars, launch,
                   message, deployVars,
                   shimVars>>

\* ------------------------------------------------------------------ deploy.sh
\* Images the registry holds at most.
MaxImages == 5
KEEP_COUNT == 3

\* The listing: one line per image, each image named by the time of its
\* push. The script takes the lines in the order the registry prints them.
ImageLists ==
    {l \in UNION {[1..n -> 1..MaxImages] : n \in 0..MaxImages} :
        \A i, j \in 1..Len(l) : i # j => l[i] # l[j]}

\* IMAGE_COUNT=$(echo "$IMAGES" | wc -l): an empty listing still counts one
\* (empty) line.
ImageCount(list) == IF list = <<>> THEN 1 ELSE Len(list)

\* TO_DELETE=$(echo "$IMAGES" | head -n "$DELETE_COUNT") when the count
\* exceeds KEEP_COUNT.
ToDelete(list) ==
    IF ImageCount(list) > KEEP_COUNT
    THEN SubSeq(list, 1, ImageCount(list) - KEEP_COUNT)
    ELSE <<>>

IdleDeploy == [pc |-> "idle", listed |-> <<>>, todo |-> <<>>, attempted |-> <<>>,
               failed |-> {}]
Remove(list, x) == SelectSeq(list, LAMBDA y : y # x)

\* The images are listed and the ones to delete are chosen.
DeployBegin ==
    /\ deploy.pc = "idle"
    /\ deploy' = [IdleDeploy EXCEPT !.pc = "cleanup", !.listed = images,
                                    !.todo = ToDelete(images)]
    /\ UNCHANGED <<gw, nextPid, gatewayToken, restart, status, boot, containerEnv,
                   configFile, startups, uncaught, backupVars, sessionVars, launch,
                   viewVars, images, shimVars>>

\* wrangler containers images delete "$img" || echo ...: the image is
\* deleted, or the deletion fails and the loop goes on.
DeployDelete ==
    /\ deploy.pc = "cleanup" /\ deploy.todo # <<>>
    /\ LET img == Head(deploy.todo)
       IN \/ /\ images' = Remove(images, img)
             /\ deploy' = [deploy EXCEPT !.todo = Tail(@),
                                         !.attempted = Append(@, img)]
          \/ /\ UNCHANGED images
             /\ deploy' = [deploy EXCEPT !.todo = Tail(@),
                                         !.attempted = Append(@, img),
                                         !.failed = @ \cup {img}]
    /\ UNCHANGED <<gw, nextPid, gatewayToken, restart, status, boot, containerEnv,
                   configFile, startups, uncaught, backupVars, sessionVars, launch,
                   viewVars, shimVars>>

\* npm run build; npx wrangler deploy: both succeed, or one fails and set -e
\* ends the script.
DeployRun ==
    /\ deploy.pc = "cleanup" /\ deploy.todo = <<>>
    /\ \E pc \in {"deployed", "failed"} : deploy' = [deploy EXCEPT !.pc = pc]
    /\ UNCHANGED <<gw, nextPid, gatewayToken, restart, status, boot, containerEnv,
                   configFile, startups, uncaught, backupVars, sessionVars, launch,
                   viewVars, images, shimVars>>

\* ------------------------------------------- POST /ai/v1/chat/completions
\* Default model to use if none specified (needs 16k+ context).
DEFAULT_MODEL == "@cf/meta/llama-3.1-8b-instruct"
\* Model mapping: OpenAI-style names to Workers AI model names.
MODEL_MAP ==
    [n \in {"llama-3.2-3b", "llama-3.2-3b-instruct", "openai/llama-3.2-3b-instruct",
            "@cf/meta/llama-3.2-3b-instruct"} |-> "@cf/meta/llama-3.2-3b-instruct"]
    @@ [n \in {"llama-3.1-8b", "llama-3.1-8b-instruct", "openai/llama-3.1-8b-instruct",
               "@cf/meta/llama-3.1-8b-instruct"} |-> "@cf/meta/llama-3.1-8b-instruct"]
    @@ [n \in {"mistral-7b", "mistral-7b-instruct", "openai/mistral-7b-instruct",
               "@cf/mistral/mistral-7b-instruct-v0.2"}
            |-> "@cf/mistral/mistral-7b-instruct-v0.2"]

\* A request body: model is NoModel when the field is absent; messagesOk
\* tells whether messages is an array; maxTokens is 0 when absent.
NoModel == "<no model>"
RequestedModels ==
    {NoModel, "", "llama-3.2-3b", "openai/llama-3.1-8b-instruct",
     "@cf/mistral/mistral-7b-instruct-v0.2", "gpt-4o", "llama-3.1-70b"}
ChatBodies ==
    [model : RequestedModels, messagesOk : BOOLEAN, maxTokens : {0, 256, 4096}]

NoChatResp == [code |-> 0, model |-> "", content |-> "", error |-> ""]
IdleChat == [pc |-> "idle", body |-> [model |-> NoModel, messagesOk |-> FALSE,
                                      maxTokens |-> 0],
             requestedModel |-> "", workersAiModel |-> "", maxTokens |-> 0,
             resp |-> NoChatResp]

\* const requestedModel = body.model || 'llama-3.2-3b'
RequestedModel(body) ==
    IF body.model \in {NoModel, ""} THEN "llama-3.2-3b" ELSE body.model
\* const workersAiModel = MODEL_MAP[requestedModel] || DEFAULT_MODEL
WorkersAiModel(requested) ==
    IF requested \in DOMAIN MODEL_MAP THEN MODEL_MAP[requested] ELSE DEFAULT_MODEL

\* The request arrives: the body is read; without a messages array the
\* answer is 400; otherwise the model is mapped and AI.run is called.
ChatRequest ==
    /\ chat.pc = "idle"
    /\ \E body \in ChatBodies :
         IF ~body.messagesOk
         THEN chat' = [chat EXCEPT !.pc = "done", !.body = body,
                          !.resp = [NoChatResp EXCEPT !.code = 400,
                              !.error = "messages is required and must be an array"]]
         ELSE chat' = [chat EXCEPT !.pc = "run", !.body = body,
                          !.requestedModel = RequestedModel(body),
                          !.workersAiModel = WorkersAiModel(RequestedModel(body)),
                          !.maxTokens = IF body.maxTokens = 0 THEN 1024
                                        ELSE body.maxTokens]
    /\ UNCHANGED <<gw, nextPid, gatewayToken, restart, status, boot, containerEnv,
                   configFile, startups, uncaught, backupVars, sessionVars, launch,
                   viewVars, deployVars>>

\* AI.run resolves: the OpenAI-style body, content response.response || ''.
ChatAnswered ==
    /\ chat.pc = "run"
    /\ \E text \in {"", "Hello"} :
         chat' = [chat EXCEPT !.pc = "done",
                      !.resp = [NoChatResp EXCEPT !.code = 200,
                                    !.model = chat.requestedModel,
                                    !.content = text]]
    /\ UNCHANGED <<gw, nextPid, gatewayToken, restart, status, boot, containerEnv,
                   configFile, startups, uncaught, backupVars, sessionVars, launch,
                   viewVars, deployVars>>

\* AI.run (or reading the body) throws: the catch answers 500.
ChatFailed ==
    /\ chat.pc \in {"idle", "run"}
    /\ chat' = [chat EXCEPT !.pc = "done",
                    !.resp = [NoChatResp EXCEPT !.code = 500,
                                  !.error = "Internal server error"]]
    /\ UNCHANGED <<gw, nextPid, gatewayToken, restart, status, boot, containerEnv,
                   configFile, startups, uncaught, backupVars, sessionVars, launch,
                   viewVars, deployVars>>

\* ------------------------------------------------------------ specification
\* Persisted documents a container may start with.
TemplateDoc ==
    [EmptyDoc EXCEPT !.gateway = [NoGateway EXCEPT !.port = 18789, !.mode = "local"]]
BrokenAnthropicDoc ==
    [EmptyDoc EXCEPT
        !.providers = With(NoProviders, "anthropic",
            Provider(AnthropicUrl, "anthropic-messages", "old-key",
                     << Model("claude-3-5-sonnet-latest", "", 200000) >>)),
        !.primary = "anthropic/claude-3-5-sonnet-latest"]
BrokenOpenAiDoc ==
    [EmptyDoc EXCEPT
        !.providers = With(NoProviders, "openai",
            Provider(GroqUrl, "openai-responses", "old-key",
                     << Model("gpt-4", "", 8192) >>))]
CustomDoc ==
    [EmptyDoc EXCEPT
        !.providers = With(NoProviders, "anthropic",
            Provider(AnthropicUrl, "anthropic-messages", "old-key",
                     AnthropicKeyModels)),
        !.primary = "anthropic/claude-3-opus-latest",
        !.gateway = [port |-> 9999, mode |-> "remote",
                     trustedProxies |-> <<"192.168.0.1">>,
                     chatCompletions |-> FALSE, token |-> "old-token",
                     allowInsecureAuth |-> FALSE]]
\* What an earlier hydration wrote under the Groq rule with a Mistral key.
StaleMistralDoc ==
    [EmptyDoc EXCEPT
        !.providers = With(NoProviders, "mistral",
            Provider(MistralUrl, "openai-responses", "old-mi-key", MistralModels)),
        !.primary = "mistral/mistral-small-latest"]
ConfigFiles ==
    {Unparseable, JsonNull, JsonScalar, JsonArray, DocFile(TemplateDoc),
     DocFile(BrokenAnthropicDoc), DocFile(BrokenOpenAiDoc), DocFile(CustomDoc),
     DocFile(StaleMistralDoc)}

Envs ==
    [USE_WORKERS_AI : {"", "true"},
     AI_GATEWAY_BASE_URL : {NoUrl, WorkerAiUrlSlash, GroqUrl, CfOpenAiUrl, CfAnthropicUrl},
     OPENAI_BASE_URL : {NoUrl, GroqUrl},
     ANTHROPIC_BASE_URL : {NoUrl, CfAnthropicUrl},
     AI_GATEWAY_API_KEY : {"", "gw-key"},
     OPENAI_API_KEY : {"", "oa-key"},
     ANTHROPIC_API_KEY : {"", "an-key"},
     MISTRAL_API_KEY : {"", "mi-key"},
     CLAWDBOT_DEV_MODE : {"", "true"}]

\* The deployment the supervisor is explored under: Workers AI through the
\* worker's own /ai/v1 endpoint, the template configuration.
SupervisorEnv ==
    [USE_WORKERS_AI |-> "true", AI_GATEWAY_BASE_URL |-> WorkerAiUrl,
     OPENAI_BASE_URL |-> NoUrl, ANTHROPIC_BASE_URL |-> NoUrl,
     AI_GATEWAY_API_KEY |-> "", OPENAI_API_KEY |-> "", ANTHROPIC_API_KEY |-> "",
     MISTRAL_API_KEY |-> "", CLAWDBOT_DEV_MODE |-> ""]

InitSupervisor ==
    /\ gw = [p \in Pids |-> "none"]
    /\ nextPid = 1
    /\ restart = [r \in RestartIds |-> IdleRestart]
    /\ status = [s \in StatusIds |-> IdleStatus]
    /\ boot = [o \in Owners |-> IdleBoot]
    /\ startups = 0
    /\ uncaught = FALSE
    /\ skills = "template"
    /\ session = IdleSession
    /\ launch = [p \in Pids |-> NoLaunch]
    /\ shown = NotShown
    /\ deploy = IdleDeploy
    /\ chat = IdleChat

\* No bucket is mounted and the container was never synced.
NoBackup == Backup("unmounted", Unparseable, NoMarker, FALSE)
InitNoBackup ==
    /\ backup = NoBackup
    /\ localSync = NoMarker
\* The session store while no session request is studied.
InitQuietSessions ==
    sessionStore = [listing |-> JsonListing(<<>>), index |-> {}, transcript |-> <<>>]
\* The panel and the registry while neither is studied.
InitQuietTools ==
    /\ message = [content |-> OtherContent, raw |-> NoText]
    /\ images = <<>>

Init ==
    /\ InitSupervisor
    /\ gatewayToken \in ConfiguredTokens
    /\ containerEnv = SupervisorEnv
    /\ configFile = DocFile(TemplateDoc)
    /\ InitNoBackup
    /\ InitQuietSessions
    /\ InitQuietTools

Next ==
    \/ \E s \in StatusIds : StatusBegin(s)
    \/ \E s \in StatusIds : StatusFindThrows(s)
    \/ \E s \in StatusIds : StatusFound(s)
    \/ \E s \in StatusIds : StatusProbed(s)
    \/ \E r \in RestartIds : RestartBegin(r)
    \/ \E r \in RestartIds : RestartFindThrows(r)
    \/ \E r \in RestartIds : RestartFound(r)
    \/ \E r \in RestartIds : RestartKilled(r)
    \/ \E r \in RestartIds : RestartGraceElapsed(r)
    \/ \E r \in RestartIds : RestartBootCatch(r)
    \/ StartupBegin
    \/ \E o \in Owners : ScriptCheck(o)
    \/ \E o \in Owners : ScriptRestore(o)
    \/ \E o \in Owners : ScriptHydrate(o)
    \/ \E o \in Owners : ScriptCleanup(o)
    \/ \E o \in Owners : ScriptExec(o)
    \/ \E o \in Owners : ScriptExecFails(o)
    \/ \E o \in Owners : EnsureSettled(o)
    \/ \E p \in Pids : GatewayBind(p)
    \/ \E p \in Pids : GatewayHang(p)

Spec == Init /\ [][Next]_vars

\* The supervisor with the progress its awaits have: the 5 s probe timeout
\* and the 2 s timer always fire, and a call to the sandbox (process
\* discovery, kill()) settles, by resolving or by throwing.
LiveFairness ==
    /\ \A s \in StatusIds :
        /\ WF_vars(StatusFindThrows(s) \/ StatusFound(s))
        /\ WF_vars(StatusProbed(s))
    /\ \A r \in RestartIds :
        /\ WF_vars(RestartFindThrows(r) \/ RestartFound(r))
        /\ WF_vars(RestartKilled(r))
        /\ WF_vars(RestartGraceElapsed(r))
SpecLive == Init /\ [][Next]_vars /\ LiveFairness

\* The hydrator alone, over every environment and persisted document.
InitHydrate ==
    /\ InitSupervisor
    /\ gatewayToken \in {UndefinedToken, "secret"}
    /\ containerEnv \in Envs
    /\ configFile \in ConfigFiles
    /\ InitNoBackup
    /\ InitQuietSessions
    /\ InitQuietTools

NextHydrate ==
    \/ StartupBegin
    \/ ScriptCheck(0)
    \/ ScriptRestore(0)
    \/ ScriptHydrate(0)

SpecHydrate == InitHydrate /\ [][NextHydrate]_vars

\* The restore step alone, over every bucket content and local marker.
Backups ==
    {NoBackup}
    \cup {Backup("empty", Unparseable, m, sk) : m \in SyncMarkers, sk \in BOOLEAN}
    \cup {Backup(l, DocFile(d), m, sk) :
              l \in {"nested", "legacy"}, d \in {CustomDoc, BrokenAnthropicDoc},
              m \in SyncMarkers, sk \in BOOLEAN}

InitRestore ==
    /\ InitSupervisor
    /\ gatewayToken = "secret"
    /\ containerEnv = SupervisorEnv
    /\ configFile = DocFile(TemplateDoc)
    /\ backup \in Backups
    /\ localSync \in SyncMarkers
    /\ InitQuietSessions
    /\ InitQuietTools

NextRestore ==
    \/ StartupBegin
    \/ ScriptCheck(0)
    \/ ScriptRestore(0)
    \/ ScriptHydrate(0)

SpecRestore == InitRestore /\ [][NextRestore]_vars

\* One startup sequence of the container from its first step to the launched
\* gateway, over the bucket contents that hold a configuration backup.
InitStartup ==
    /\ InitSupervisor
    /\ gatewayToken \in {UndefinedToken, "secret"}
    /\ containerEnv = SupervisorEnv
    /\ configFile \in {DocFile(TemplateDoc), JsonNull}
    /\ backup \in {b \in Backups : b.layout # "empty"}
    /\ localSync \in SyncMarkers
    /\ InitQuietSessions
    /\ InitQuietTools

NextStartup ==
    \/ StartupBegin
    \/ ScriptCheck(0)
    \/ ScriptRestore(0)
    \/ ScriptHydrate(0)
    \/ ScriptCleanup(0)
    \/ ScriptExec(0)
    \/ ScriptExecFails(0)
    \/ EnsureSettled(0)
    \/ \E p \in Pids : GatewayBind(p)
    \/ \E p \in Pids : GatewayHang(p)

SpecStartup == InitStartup /\ [][NextStartup]_vars

\* The session store alone, over every listing, index and transcript.
InitSessions ==
    /\ InitSupervisor
    /\ gatewayToken = "secret"
    /\ containerEnv = SupervisorEnv
    /\ configFile = DocFile(TemplateDoc)
    /\ InitNoBackup
    /\ sessionStore \in [listing : Listings, index : SUBSET SessionKeys,
                          transcript : Transcripts]
    /\ InitQuietTools

NextSessions ==
    \/ ListSessions
    \/ \E k \in SessionKeys, n \in 1..MaxLimit : GetHistoryBegin(k, n)
    \/ GetHistoryIndex
    \/ GetHistoryRead

SpecSessions == InitSessions /\ [][NextSessions]_vars

\* The message rendering alone, over every message.
InitView ==
    /\ InitSupervisor
    /\ gatewayToken = "secret"
    /\ containerEnv = SupervisorEnv
    /\ configFile = DocFile(TemplateDoc)
    /\ InitNoBackup
    /\ InitQuietSessions
    /\ message \in SessionMessages
    /\ images = <<>>

NextView == RenderMessage

SpecView == InitView /\ [][NextView]_vars

\* deploy.sh alone, over every listing.
InitDeploy ==
    /\ InitSupervisor
    /\ gatewayToken = "secret"
    /\ containerEnv = SupervisorEnv
    /\ configFile = DocFile(TemplateDoc)
    /\ InitNoBackup
    /\ InitQuietSessions
    /\ message = [content |-> OtherContent, raw |-> NoText]
    /\ images \in ImageLists

NextDeploy ==
    \/ DeployBegin
    \/ DeployDelete
    \/ DeployRun

SpecDeploy == InitDeploy /\ [][NextDeploy]_vars

\* The chat-completions shim alone, over the request bodies.
InitShim ==
    /\ InitSupervisor
    /\ gatewayToken = "secret"
    /\ containerEnv = SupervisorEnv
    /\ configFile = DocFile(TemplateDoc)
    /\ InitNoBackup
    /\ InitQuietSessions
    /\ InitQuietTools

NextShim ==
    \/ ChatRequest
    \/ ChatAnswered
    \/ ChatFailed

SpecShim == InitShim /\ [][NextShim]_vars

\* One restart request and a status poll against a container whose own
\* startup is over and whose gateway runs (answering or not): the caller
\* polls status, the handlers' awaits settle.
InitPoll ==
    /\ gw = [p \in Pids |-> IF p = 1 THEN "serving" ELSE "none"]
    /\ nextPid = 2
    /\ restart = [r \in RestartIds |-> IdleRestart]
    /\ status = [s \in StatusIds |-> IdleStatus]
    /\ boot = [o \in Owners |->
                 IF o = 0 THEN [IdleBoot EXCEPT !.pc = "ok",
                                                !.log = <<"hydrate", "launch">>]
                 ELSE IdleBoot]
    /\ startups = MaxStartups
    /\ uncaught = FALSE
    /\ skills = "template"
    /\ session = IdleSession
    /\ launch = [p \in Pids |-> IF p = 1 THEN LaunchArgs("secret") ELSE NoLaunch]
    /\ shown = NotShown
    /\ deploy = IdleDeploy
    /\ chat = IdleChat
    /\ gatewayToken = "secret"
    /\ containerEnv = SupervisorEnv
    /\ configFile = Hydrate(DocFile(TemplateDoc), SupervisorEnv, "secret")
    /\ InitNoBackup
    /\ InitQuietSessions
    /\ InitQuietTools

NextPoll ==
    \/ \E s \in StatusIds : StatusBegin(s)
    \/ \E s \in StatusIds : StatusFindThrows(s)
    \/ \E s \in StatusIds : StatusFound(s)
    \/ \E s \in StatusIds : StatusProbed(s)
    \/ RestartBegin(1)
    \/ RestartFindThrows(1)
    \/ RestartFound(1)
    \/ RestartKilled(1)
    \/ RestartGraceElapsed(1)
    \/ RestartBootCatch(1)
    \/ ScriptCheck(1)
    \/ ScriptRestore(1)
    \/ ScriptHydrate(1)
    \/ ScriptCleanup(1)
    \/ ScriptExec(1)
    \/ ScriptExecFails(1)
    \/ EnsureSettled(1)
    \/ \E p \in Pids : GatewayBind(p)
    \/ \E p \in Pids : GatewayHang(p)

PollFairness ==
    /\ LiveFairness
    /\ \A s \in StatusIds : WF_vars(StatusBegin(s))
SpecPoll == InitPoll /\ [][NextPoll]_vars /\ PollFairness

\* Restart requests against a container whose own startup is over and whose
\* gateway runs, with a bucket and a local marker in any state (the bucket
\* is also written by the periodic sync): each restart runs the startup
\* script again, one run after another or both at once.
InitRerun ==
    /\ gw = [p \in Pids |-> IF p = 1 THEN "serving" ELSE "none"]
    /\ nextPid = 2
    /\ restart = [r \in RestartIds |-> IdleRestart]
    /\ status = [s \in StatusIds |-> IdleStatus]
    /\ boot = [o \in Owners |->
                 IF o = 0 THEN [IdleBoot EXCEPT !.pc = "ok",
                                                !.log = <<"hydrate", "launch">>]
                 ELSE IdleBoot]
    /\ startups = MaxStartups
    /\ uncaught = FALSE
    /\ skills = "template"
    /\ session = IdleSession
    /\ launch = [p \in Pids |-> IF p = 1 THEN LaunchArgs("secret") ELSE NoLaunch]
    /\ shown = NotShown
    /\ deploy = IdleDeploy
    /\ chat = IdleChat
    /\ gatewayToken = "secret"
    /\ containerEnv = SupervisorEnv
    /\ configFile = Hydrate(DocFile(TemplateDoc), SupervisorEnv, "secret")
    /\ backup \in {b \in Backups : b.layout # "empty"}
    /\ localSync \in SyncMarkers
    /\ InitQuietSessions
    /\ InitQuietTools

NextRerun ==
    \/ \E r \in RestartIds : RestartBegin(r)
    \/ \E r \in RestartIds : RestartFindThrows(r)
    \/ \E r \in RestartIds : RestartFound(r)
    \/ \E r \in RestartIds : RestartKilled(r)
    \/ \E r \in RestartIds : RestartGraceElapsed(r)
    \/ \E r \in RestartIds : RestartBootCatch(r)
    \/ \E r \in RestartIds : ScriptCheck(r)
    \/ \E r \in RestartIds : ScriptRestore(r)
    \/ \E r \in RestartIds : ScriptHydrate(r)
    \/ \E r \in RestartIds : ScriptCleanup(r)
    \/ \E r \in RestartIds : ScriptExec(r)
    \/ \E r \in RestartIds : ScriptExecFails(r)
    \/ \E r \in RestartIds : EnsureSettled(r)
    \/ \E p \in Pids : GatewayBind(p)
    \/ \E p \in Pids : GatewayHang(p)

SpecRerun == InitRerun /\ [][NextRerun]_vars

\* ================================================================== claims
IsPrefix(a, b) == Len(a) <= Len(b) /\ a = SubSeq(b, 1, Len(a))
RestartSteps == <<"find", "kill", "wait", "ensure", "respond">>
Scheduled(r) == \E i \in 1..Len(restart[r].log) : restart[r].log[i] = "ensure"
BootRunning(o) ==
    boot[o].pc \in {"check", "restore", "hydrate", "cleanup", "exec", "wait"}

\* C1: when a gateway process exists and answers its health probe, a run of
\* the startup sequence (ensureRunning) ends at its check: that step launches
\* nothing, kills nothing, leaves every process as it was and returns.
C1_EnsureRunningIdempotent ==
    [][\A o \in Owners :
          (boot[o].pc = "check" /\ boot'[o].pc # "check"
           /\ LiveProcs # {} /\ PortAnswers)
          => /\ gw' = gw
             /\ nextPid' = nextPid
             /\ configFile' = configFile
             /\ boot'[o].pc = "ok"
             /\ boot'[o].sawHealthy]_vars

C1_Witness ==
    \E o \in Owners : boot[o].pc = "ok" /\ boot[o].sawHealthy /\ PortAnswers

\* C2: at most one live gateway process exists in every reachable state.
C2_AtMostOneLive == Cardinality(LiveProcs) <= 1

\* C3: a restart request whose token is missing, empty or not the configured
\* token (always, when none is configured) ends at once with the 401 body,
\* having done no discovery, kill, wait or launch; the step that answers it
\* changes no process.
C3_UnauthorizedHasNoEffect ==
    [][\A r \in RestartIds :
          (restart'[r].pc # "idle"
           /\ (restart'[r].token \in {NullToken, ""}
               \/ restart'[r].token # gatewayToken
               \/ gatewayToken = UndefinedToken))
          => /\ restart'[r].pc = "done"
             /\ restart'[r].resp = Unauthorized
             /\ restart'[r].log = <<>>
             /\ restart'[r].existing = NoPid
             /\ boot'[r].pc = "none"
             /\ restart[r].pc = "idle" => (gw' = gw /\ nextPid' = nextPid
                                           /\ boot' = boot)]_vars

C3_Witness ==
    \E r \in RestartIds :
        /\ restart[r].pc = "done" /\ restart[r].resp.code = 401
        /\ restart[r].token = "" /\ gatewayToken = ""
        /\ PortAnswers

\* C4: restarts are serialized: no two restart requests are in flight (from
\* discovery to the end of the relaunch) at the same time.
RestartInFlight(r) ==
    \/ restart[r].pc \in {"find", "kill", "wait"}
    \/ restart[r].pc = "done" /\ BootRunning(r)
C4_RestartsSerialized ==
    \A r1, r2 \in RestartIds : (RestartInFlight(r1) /\ RestartInFlight(r2)) => r1 = r2

\* C5: in an authorized restart that found a process, the steps are, in this
\* order, discovery, termination request, end of the grace wait, invocation
\* of ensureRunning, response; ensureRunning never runs before the wait ended.
C5_RestartStepOrder ==
    \A r \in RestartIds :
        /\ restart[r].existing # NoPid => IsPrefix(restart[r].log, RestartSteps)
        /\ boot[r].pc # "none" => Scheduled(r)

C5_Witness ==
    \E r \in RestartIds : restart[r].existing # NoPid /\ restart[r].log = RestartSteps

\* C6: once the relaunch is scheduled the restart has answered with the
\* success body, whatever the background boot does afterwards, and
\* previousProcessId is in the body exactly when a process was found.
C6_RestartFireAndForget ==
    \A r \in RestartIds :
        Scheduled(r) =>
            /\ restart[r].pc = "done"
            /\ restart[r].resp.code = 200
            /\ restart[r].resp.success
            /\ restart[r].resp.message # ""
            /\ restart[r].resp.previousProcessId = restart[r].existing
            /\ ("previousProcessId" \in restart[r].resp.fields)
                   <=> (restart[r].existing # NoPid)

C6_Witness ==
    \E r1, r2 \in RestartIds :
        /\ restart[r1].resp.success /\ restart[r1].existing # NoPid
        /\ boot[r1].pc = "failed"
        /\ restart[r2].resp.success /\ restart[r2].existing = NoPid
        /\ boot[r2].pc = "ok"
        /\ restart[r2].resp.fields = {"success", "message"}

\* C7 (as stated): a launch failure of the boot a restart triggered reaches
\* that restart's caller as a 500.
C7_LaunchFailureIs500 ==
    \A r \in RestartIds :
        boot[r].pc \in {"rejected", "failed"} => restart[r].resp.code = 500

\* C7 (amended): a launch failure ends the ensureRunning call, and in a
\* restart it is caught and logged by the background boot's rejection
\* handler: the caller keeps the success response, no error is left uncaught.
C7_LaunchFailureCaught ==
    /\ ~uncaught
    /\ \A r \in RestartIds :
        /\ boot[r].pc \in {"rejected", "failed"}
              => restart[r].resp = RestartSuccess(restart[r].existing)
        /\ boot[r].pc = "failed" <=> boot[r].caught

C7_Witness == \E r \in RestartIds : boot[r].pc = "failed" /\ boot[r].caught

\* C8: a status response is one of not_running (no process found), running
\* (found, probe succeeded), not_responding (found, probe failed) and error
\* (discovery failed); ok iff running; processId present iff a process was
\* found.
C8_StatusOutcomes ==
    \A s \in StatusIds :
        status[s].pc = "done" =>
            LET q == status[s]
                found == q.found # NoPid
            IN /\ q.resp.code = 200
               /\ q.resp.status \in {"not_running", "running", "not_responding", "error"}
               /\ q.resp.status = "error" <=> q.findFailed
               /\ q.resp.status = "not_running" <=> (~q.findFailed /\ ~found)
               /\ q.resp.status = "running" <=> (found /\ q.probeOk)
               /\ q.resp.status = "not_responding" <=> (found /\ ~q.probeOk)
               /\ q.resp.ok <=> q.resp.status = "running"
               /\ ("processId" \in q.resp.fields) <=> found
               /\ found => q.resp.processId = q.found
               /\ ("error" \in q.resp.fields) <=> q.findFailed

C8_Witness ==
    \E s \in StatusIds :
        /\ status[s].pc = "done" /\ status[s].resp.status = "not_responding"
        /\ status[s].resp.processId \in LiveProcs

\* C9: no failure escapes a control handler: whatever discovery, the probe,
\* the kill or the background boot did, a finished request holds a
\* well-formed response and nothing was left uncaught.
WellFormedStatus(q) ==
    /\ q.code = 200
    /\ q.status \in {"not_running", "running", "not_responding", "error"}
    /\ {"ok", "status"} \subseteq q.fields
WellFormedRestart(q) ==
    \/ q.code = 401 /\ q.fields = {"error"} /\ q.error # ""
    \/ q.code = 500 /\ q.fields = {"error"} /\ q.error # ""
    \/ q.code = 200 /\ {"success", "message"} \subseteq q.fields /\ q.success
C9_NoFailureEscapes ==
    /\ ~uncaught
    /\ \A s \in StatusIds :
        /\ status[s].pc \in {"idle", "find", "probe", "done"}
        /\ status[s].pc = "done" => WellFormedStatus(status[s].resp)
    /\ \A r \in RestartIds :
        /\ restart[r].pc \in {"idle", "find", "kill", "wait", "done"}
        /\ restart[r].pc = "done" => WellFormedRestart(restart[r].resp)

C9_Witness ==
    /\ \E s \in StatusIds : status[s].pc = "done" /\ status[s].findFailed
    /\ \E r \in RestartIds :
        restart[r].pc = "done" /\ restart[r].killFailed /\ boot[r].pc = "failed"
    /\ \E r \in RestartIds : restart[r].resp.code = 500

\* C10: whenever managed inference is selected (USE_WORKERS_AI is 'true' or
\* the base URL contains /ai/v1) the hydration of a document (or of a file
\* read as the empty document) applies the Workers AI rule and no other,
\* whatever base URLs and credentials are also present.
ManagedSelected(e) ==
    e.USE_WORKERS_AI = "true" \/ Includes(BaseUrl(e), <<"/", "ai", "/", "v1">>)
C10_ManagedInferenceWins ==
    [][(boot[0].pc = "hydrate" /\ boot'[0].pc = "cleanup"
        /\ configFile.kind \in {"doc", "unparseable"}
        /\ ManagedSelected(containerEnv))
       => LET before == CleanProviders(ParseConfig(configFile).providers)
              after == configFile'.doc
          IN /\ after.primary = "openai/llama-3.1-8b-instruct"
             /\ "openai" \in DOMAIN after.providers
             /\ after.providers["openai"].models = WorkersAiModels
             /\ after.providers["openai"].api = "openai-responses"
             /\ \A n \in ProviderNames \ {"openai"} :
                   /\ n \in DOMAIN after.providers <=> n \in DOMAIN before
                   /\ n \in DOMAIN before => after.providers[n] = before[n]]_vars

C10_Witness ==
    /\ boot[0].pc = "cleanup"
    /\ containerEnv.USE_WORKERS_AI = "true"
    /\ containerEnv.AI_GATEWAY_BASE_URL = GroqUrl
    /\ containerEnv.ANTHROPIC_API_KEY # "" /\ containerEnv.MISTRAL_API_KEY # ""
    /\ configFile.doc.primary = "openai/llama-3.1-8b-instruct"

\* A hydration step that ran to its write, on a file read as a document.
HydrationOfDoc ==
    /\ boot[0].pc = "hydrate" /\ boot'[0].pc = "cleanup"
    /\ configFile.kind \in {"doc", "unparseable"}
Broken(p) == \E i \in 1..Len(p.models) : p.models[i].name = ""

\* C11: a hydration applies exactly one of the five provider rules, the
\* first whose condition holds in the order managed, OpenAI-compatible URL,
\* other (Anthropic-compatible) URL, direct Anthropic credential, static
\* default: the rule's provider entries are written, no other entry is
\* added or changed, and the static default sets the primary model only.
RuleNumber(e) ==
    IF ManagedSelected(e) THEN 1
    ELSE IF Includes(BaseUrl(e), <<"/", "openai">>) \/ Includes(BaseUrl(e), <<"groq.com">>)
         THEN 2
    ELSE IF BaseUrl(e) # NoUrl THEN 3
    ELSE IF e.ANTHROPIC_API_KEY # "" THEN 4
    ELSE 5
RuleWrites(e) ==
    CASE RuleNumber(e) = 1 -> {"openai"}
      [] RuleNumber(e) = 2 ->
            IF Includes(BaseUrl(e), <<"groq.com">>) /\ e.MISTRAL_API_KEY # ""
            THEN {"openai", "mistral"} ELSE {"openai"}
      [] RuleNumber(e) \in {3, 4} -> {"anthropic"}
      [] OTHER -> {}
RuleApplied(e, after) ==
    CASE RuleNumber(e) = 1 ->
            /\ after.providers["openai"].models = WorkersAiModels
            /\ after.primary = "openai/llama-3.1-8b-instruct"
      [] RuleNumber(e) = 2 ->
            /\ after.providers["openai"].models \in {GroqModels, OpenAiModels}
            /\ after.providers["openai"].baseUrl = BaseUrl(e)
            /\ after.primary \in {"openai/gpt-5.2", "openai/llama-3.3-70b-versatile",
                                  "mistral/mistral-small-latest"}
      [] RuleNumber(e) = 3 ->
            /\ after.providers["anthropic"].models = AnthropicUrlModels
            /\ after.providers["anthropic"].baseUrl = BaseUrl(e)
            /\ after.primary = "anthropic/claude-opus-4-5-20251101"
      [] RuleNumber(e) = 4 ->
            /\ after.providers["anthropic"].models = AnthropicKeyModels
            /\ after.providers["anthropic"].baseUrl = AnthropicUrl
            /\ after.providers["anthropic"].apiKey = e.ANTHROPIC_API_KEY
            /\ after.primary = "anthropic/claude-3-5-sonnet-latest"
      [] OTHER -> after.primary = "anthropic/claude-opus-4-5"
C11_FirstMatchingRuleOnly ==
    [][HydrationOfDoc
       => LET before == CleanProviders(ParseConfig(configFile).providers)
              after == configFile'.doc
              e == containerEnv
          IN /\ RuleWrites(e) \subseteq DOMAIN after.providers
             /\ RuleApplied(e, after)
             /\ \A n \in ProviderNames \ RuleWrites(e) :
                   /\ n \in DOMAIN after.providers <=> n \in DOMAIN before
                   /\ n \in DOMAIN before => after.providers[n] = before[n]
             /\ RuleNumber(e) = 5 => after.allow = ParseConfig(configFile).allow]_vars

C11_Witness ==
    /\ boot[0].pc = "cleanup"
    /\ containerEnv.USE_WORKERS_AI = "" /\ BaseUrl(containerEnv) = NoUrl
    /\ containerEnv.ANTHROPIC_API_KEY = "" /\ containerEnv.OPENAI_API_KEY # ""
    /\ configFile.kind = "doc"
    /\ configFile.doc.providers = NoProviders
    /\ configFile.doc.primary = "anthropic/claude-opus-4-5"

\* C12: a hydration leaves no persisted provider entry, of any name, that
\* holds a model record without a name: the entry is removed before the
\* provider rule is applied (so it is absent or rewritten afterwards), and an
\* entry whose records are all valid is kept unless the rule rewrites it.
C12_BrokenProvidersRemoved ==
    [][HydrationOfDoc
       => LET before == ParseConfig(configFile).providers
              after == configFile'.doc.providers
          IN \A n \in DOMAIN before :
                /\ Broken(before[n])
                      => (n \notin DOMAIN after \/ ~Broken(after[n]))
                /\ (~Broken(before[n]) /\ n \notin RuleWrites(containerEnv))
                      => (n \in DOMAIN after /\ after[n] = before[n])]_vars

\* C13: after a hydration, whatever gateway settings the persisted document
\* held, the port is 18789, the mode is local, the trusted proxies are the
\* canonical list and the chat completions endpoint is enabled.
C13_CanonicalGatewayFields ==
    [][HydrationOfDoc
       => LET g == configFile'.doc.gateway
          IN /\ g.port = 18789
             /\ g.mode = "local"
             /\ g.trustedProxies = <<"10.1.0.0">>
             /\ g.chatCompletions]_vars

C13_Witness ==
    /\ boot[0].pc = "cleanup"
    /\ configFile.kind = "doc"
    /\ configFile.doc.gateway.token = "old-token"
    /\ configFile.doc.gateway.port = 18789
    /\ configFile.doc.gateway.mode = "local"
    /\ configFile.doc.gateway.chatCompletions

\* C14: a persisted file that is not a document (unreadable, unparseable,
\* or a JSON value that is not an object) is hydrated as the empty document
\* would be: the hydration completes and writes that configuration.
C14_MalformedTreatedAsEmpty ==
    [][(boot[0].pc = "hydrate" /\ boot'[0].pc # "hydrate" /\ configFile.kind # "doc")
       => /\ boot'[0].pc = "cleanup"
          /\ configFile' = Hydrate(DocFile(EmptyDoc), containerEnv, gatewayToken)]_vars

\* C15: the restore step restores from the bucket exactly when the remote
\* marker exists and either no local marker exists or the remote marker's
\* parsed time is strictly later than the local one's; otherwise (equal
\* times, an older or a missing remote marker) nothing is restored and the
\* configuration and the local marker stay as they were.
C15_RestoreOnlyWhenNewer ==
    [][\A o \in Owners :
          (boot[o].pc = "restore" /\ boot'[o].pc # "restore"
           /\ (HasConfigBackup(backup) \/ backup.hasSkills))
          => LET newer == /\ backup.sync.present
                          /\ \/ ~localSync.present
                             \/ Epoch(backup.sync) > Epoch(localSync)
             IN /\ (boot'[o].log # <<>>) <=> newer
                /\ (HasConfigBackup(backup) /\ newer)
                      => (configFile' = backup.config /\ localSync' = backup.sync)
                /\ ~newer => (configFile' = configFile /\ localSync' = localSync
                              /\ skills' = skills)]_vars

C15_Witness ==
    /\ boot[0].pc = "hydrate" /\ boot[0].log = <<>>
    /\ backup.layout = "nested"
    /\ backup.sync = Stamp(1, 5) /\ localSync = Stamp(1, 0)
    /\ configFile = DocFile(TemplateDoc)

\* C16: a run of the startup sequence that launches a gateway has done, in
\* this order, the restore (if any), one rewrite of the configuration by the
\* hydrator, and the launch; no process is launched by a run that has not
\* rewritten the configuration, and no run rewrites it twice.
IsStep(e) == e # "skills"
StartupSteps(o) == SelectSeq(boot[o].log, IsStep)
C16_StartupOrder ==
    /\ [](\A o \in Owners :
            /\ \/ IsPrefix(StartupSteps(o), <<"restore", "hydrate", "launch">>)
               \/ IsPrefix(StartupSteps(o), <<"hydrate", "launch">>)
            /\ boot[o].pc = "wait"
                  => StartupSteps(o) \in {<<"restore", "hydrate", "launch">>,
                                          <<"hydrate", "launch">>})
    /\ [][nextPid' # nextPid
           => \E o \in Owners :
                 /\ boot'[o].pid = nextPid
                 /\ boot[o].log # <<>>
                 /\ boot[o].log[Len(boot[o].log)] = "hydrate"
                 /\ boot'[o].log = Append(boot[o].log, "launch")]_vars

C16_Witness ==
    \E o \in Owners :
        /\ boot[o].pc = "wait"
        /\ boot[o].log = <<"restore", "hydrate", "launch">>
        /\ gw[boot[o].pid] = "serving"
        /\ configFile.doc.gateway.port = 18789

\* C17: listSessions, when the listing output is not JSON, answers 200 with
\* an empty session list and a raw field equal to the output text.
C17_ListSessionsRawFallback ==
    (session.pc = "done" /\ session.key = "" /\ ~sessionStore.listing.json)
    => /\ session.resp.code = 200
       /\ session.resp.sessions = <<>>
       /\ "raw" \in session.resp.fields
       /\ session.resp.raw = sessionStore.listing.text
       /\ session.resp.raw # ""

C17_Witness ==
    /\ session.pc = "done" /\ session.key = ""
    /\ session.resp.raw = "not valid json"
    /\ session.resp.sessions = <<>>

\* C18: getHistory for a key the index does not hold answers 404 'Session
\* not found', never a message list, and never reads a transcript.
C18_MissingSessionIs404 ==
    (session.key # "" /\ session.key \notin sessionStore.index)
    => /\ session.pc \in {"index", "done"}
       /\ \A i \in 1..Len(session.calls) : session.calls[i] # "tail"
       /\ session.pc = "done"
             => /\ session.resp.code = 404
                /\ session.resp.error = "Session not found"
                /\ session.resp.fields = {"error"}

C18_Witness ==
    /\ session.pc = "done" /\ session.resp.code = 404
    /\ session.calls = <<"sessions", "cat">>
    /\ sessionStore.index # {} /\ sessionStore.transcript # <<>>

\* C19: on a transcript of n valid lines and a limit k, getHistory returns
\* the last min(k, n) messages in transcript order.
C19_LastMessagesInOrder ==
    (session.pc = "done" /\ session.key \in sessionStore.index
     /\ \A i \in 1..Len(sessionStore.transcript) : sessionStore.transcript[i].json)
    => LET t == sessionStore.transcript
           n == Len(t)
           m == IF session.limit < n THEN session.limit ELSE n
       IN /\ session.resp.code = 200
          /\ Len(session.resp.messages) = m
          /\ \A i \in 1..m :
                session.resp.messages[i] =
                    [role |-> t[n - m + i].role, content |-> t[n - m + i].content]

C19_Witness ==
    /\ session.pc = "done" /\ session.limit = 2
    /\ Len(sessionStore.transcript) = 5
    /\ \A i \in 1..5 : sessionStore.transcript[i].json
    /\ sessionStore.transcript[3] # sessionStore.transcript[4]
    /\ sessionStore.transcript[4] # sessionStore.transcript[5]
    /\ Len(session.resp.messages) = 2
    /\ session.resp.messages[1].role = sessionStore.transcript[4].role
    /\ session.resp.messages[2].role = sessionStore.transcript[5].role

\* C20: the lines are parsed one by one: a line that fails to parse is
\* skipped, every parseable line among the last `limit` lines is returned,
\* in order, and the request succeeds.
IsJson(l) == l.json
C20_CorruptLinesSkipped ==
    (session.pc = "done" /\ session.key \in sessionStore.index)
    => LET t == sessionStore.transcript
           n == Len(t)
           m == IF session.limit < n THEN session.limit ELSE n
           valid == SelectSeq(SubSeq(t, n - m + 1, n), IsJson)
       IN /\ session.resp.code = 200
          /\ session.resp.fields = {"messages"}
          /\ Len(session.resp.messages) = Len(valid)
          /\ \A i \in 1..Len(valid) :
                session.resp.messages[i] =
                    [role |-> valid[i].role, content |-> valid[i].content]

C20_Witness ==
    /\ session.pc = "done" /\ session.limit = 3
    /\ Len(sessionStore.transcript) = 4
    /\ sessionStore.transcript[2].json
    /\ ~sessionStore.transcript[3].json
    /\ sessionStore.transcript[4].json
    /\ Len(session.resp.messages) = 2
    /\ session.resp.messages[1].role # session.resp.messages[2].role

\* The first part tagged as text, 0 when no part is.
FirstTextPart(parts) ==
    IF \E i \in 1..Len(parts) : parts[i].type = "text"
    THEN CHOOSE i \in 1..Len(parts) :
            /\ parts[i].type = "text"
            /\ \A j \in 1..(i - 1) : parts[j].type # "text"
    ELSE 0

\* C21 (as stated): string content is shown as it is; content parts show the
\* text of the first part tagged as text, '[complex content]' when no part
\* is; otherwise the raw field when present, else '[no content]'.
C21_NormalizationAsStated ==
    shown # NotShown
    => shown =
         IF message.content.kind = "string" THEN message.content.text
         ELSE IF message.content.kind = "array"
         THEN IF FirstTextPart(message.content.parts) # 0
              THEN message.content.parts[FirstTextPart(message.content.parts)].text
              ELSE "[complex content]"
         ELSE IF message.raw # NoText THEN message.raw
         ELSE "[no content]"

\* C21 (amended): as above, except that the first text part's text is shown
\* only when it is not empty ('[complex content]' otherwise, even if a later
\* part has text) and the raw field only when it is not empty ('[no
\* content]' otherwise); the result is always a shown string.
C21_Normalization ==
    shown # NotShown
    => /\ shown # NoText
       /\ shown =
            IF message.content.kind = "string" THEN message.content.text
            ELSE IF message.content.kind = "array"
            THEN IF /\ FirstTextPart(message.content.parts) # 0
                    /\ message.content.parts[FirstTextPart(message.content.parts)].text
                          \notin {NoText, ""}
                 THEN message.content.parts[FirstTextPart(message.content.parts)].text
                 ELSE "[complex content]"
            ELSE IF message.raw \notin {NoText, ""} THEN message.raw
            ELSE "[no content]"

C21_Witness ==
    /\ shown = "[complex content]"
    /\ message.content.kind = "array"
    /\ message.content.parts = <<ContentPart("text", ""), ContentPart("text", "Hello")>>
    /\ message.raw = "raw text"

\* Every deleted image is older than every image kept.
Kept(d) == {d.listed[i] : i \in 1..Len(d.listed)} \ {d.attempted[i] : i \in 1..Len(d.attempted)}
DeletedAreOldest(d) ==
    \A i \in 1..Len(d.attempted) : \A k \in Kept(d) : d.attempted[i] < k

\* C22 (as stated): once the cleanup is over, with more than 3 images listed
\* exactly (count - 3) were deleted, each older than every image kept; with
\* 3 or fewer none was; a failed deletion did not stop the script.
C22_KeepsThreeMostRecent ==
    deploy.pc \in {"deployed", "failed"}
    => LET n == Len(deploy.listed)
       IN /\ n > 3 => (Len(deploy.attempted) = n - 3 /\ DeletedAreOldest(deploy))
          /\ n <= 3 => deploy.attempted = <<>>

\* C23: when kill() fails during an authorized restart the handler goes on:
\* it waits the grace period, then calls ensureRunning (the boot is
\* scheduled) and answers with the success body, all five steps in order.
C23_KillFailureNonFatal ==
    \A r \in RestartIds :
        restart[r].killFailed
        => /\ restart[r].pc \in {"wait", "done"}
           /\ (restart[r].pc = "wait" => restart[r].log = <<"find", "kill">>)
           /\ (restart[r].pc = "done"
                 => (/\ restart[r].log = RestartSteps
                     /\ restart[r].resp = RestartSuccess(restart[r].existing)
                     /\ boot[r].pc # "none"))

C23_Witness ==
    \E r \in RestartIds :
        /\ restart[r].killFailed
        /\ restart[r].pc = "done"
        /\ restart[r].resp.code = 200
        /\ gw[restart[r].existing] \in {"serving", "hung"}
        /\ boot[r].pc = "check"

Launches(p) ==
    \E o \in Owners :
        /\ boot[o].pc = "exec"
        /\ boot'[o].pc = "wait"
        /\ boot'[o].pid = p
        /\ o \in RestartIds => (restart[o].token = gatewayToken /\ Scheduled(o))
\* A step in which the termination of p is requested and takes effect:
\* kill() on the process a restart found, or the script's pkill.
Terminates(p) ==
    \/ \E r \in RestartIds :
        restart[r].pc = "kill" /\ restart[r].existing = p /\ restart'[r].pc = "wait"
    \/ \E o \in Owners : boot[o].pc = "cleanup" /\ boot'[o].pc = "exec"
StatedTransition(p) ==
    \/ gw'[p] = gw[p]
    \/ gw[p] = "none" /\ gw'[p] = "starting" /\ Launches(p)
    \/ gw[p] = "starting" /\ gw'[p] = "serving"
    \/ gw[p] = "serving" /\ gw'[p] = "hung"
    \/ gw[p] \in {"starting", "serving", "hung"} /\ gw'[p] = "dead" /\ Terminates(p)

\* C25 (as stated): a gateway process only takes the transitions NOT_RUNNING
\* -> STARTING -> RUNNING, RUNNING -> UNRESPONSIVE, RESTARTING -> STARTING on
\* an authorized restart, and any state -> KILLED -> NOT_RUNNING when its
\* termination is requested and takes effect.
C25_LifecycleAsStated == [][\A p \in Pids : StatedTransition(p)]_vars

\* C26: a run of the startup script that finds a gateway process which does
\* not answer the health check does not exit with it: it goes on; its
\* cleanup step terminates every gateway process; it execs a gateway only
\* after that step, under a process id never used; and a terminated process
\* never runs again. So a process found unhealthy is dead before the run
\* launches the new one.
C26_UnhealthyIsReplaced ==
    [][/\ \A o \in Owners :
            /\ (boot[o].pc = "check" /\ LiveProcs # {} /\ ~PortAnswers
                    /\ boot'[o] # boot[o])
                 => (boot'[o].pc = "restore" /\ ~boot'[o].sawHealthy)
            /\ (boot[o].pc = "cleanup" /\ boot'[o] # boot[o])
                 => (/\ boot'[o].pc = "exec"
                     /\ \A p \in LiveProcs : gw'[p] = "dead"
                     /\ \A p \in Pids : gw'[p] \in {"none", "dead"})
            /\ (boot'[o].pc = "exec" /\ boot[o].pc # "exec")
                 => boot[o].pc = "cleanup"
            /\ (boot[o].pc = "exec" /\ boot'[o].pc = "wait")
                 => (/\ gw[boot'[o].pid] = "none"
                     /\ gw'[boot'[o].pid] = "starting")
       /\ \A p \in Pids : gw[p] = "dead" => gw'[p] = "dead"]_vars

C26_Witness ==
    \E o \in RestartIds :
        /\ restart[o].killFailed
        /\ boot[o].pc = "wait"
        /\ restart[o].existing # boot[o].pid
        /\ gw[restart[o].existing] = "dead"
        /\ gw[boot[o].pid] = "serving"
        /\ boot[o].log = <<"hydrate", "launch">>

\* C27: every launched gateway was given the fixed port 18789 and the bind
\* mode "lan"; it was given --token with the configured token iff that token
\* is non-empty, and no token argument (device pairing) otherwise.
C27_LaunchArguments ==
    \A p \in Pids :
        gw[p] # "none"
        => /\ launch[p].port = GATEWAY_PORT
           /\ launch[p].bind = "lan"
           /\ (gatewayToken \notin {UndefinedToken, ""}
                 => launch[p].token = gatewayToken)
           /\ (gatewayToken \in {UndefinedToken, ""}
                 => launch[p].token = NoTokenArg)

C27_Witness ==
    /\ gatewayToken = ""
    /\ \E p \in Pids : gw[p] = "serving" /\ launch[p].token = NoTokenArg
                          /\ launch[p].port = GATEWAY_PORT

\* C28: whenever the Workers AI rule is applied the openai provider written
\* points at the worker's own inference proxy (a URL on the /ai/v1 path),
\* also when the rule was selected by USE_WORKERS_AI while the base URL
\* names another endpoint or is absent.
C28_ManagedUsesInternalProxy ==
    [][(HydrationOfDoc /\ ManagedSelected(containerEnv))
       => Includes(configFile'.doc.providers["openai"].baseUrl,
                   <<"/", "ai", "/", "v1">>)]_vars

\* A model reference: provider name, a slash, the model id.
ModelRef(provider, id) == provider \o "/" \o id
\* The position of the first model with the property, 0 when there is none.
FirstModel(models, Fits(_)) ==
    IF \E i \in 1..Len(models) : Fits(models[i])
    THEN CHOOSE i \in 1..Len(models) :
            Fits(models[i]) /\ \A j \in 1..(i - 1) : ~Fits(models[j])
    ELSE 0

\* C29: when the Workers AI rule is applied the primary model is the first
\* model of the catalog written, in catalog order, whose context window is
\* at least 16K tokens, and no model below 16K is the primary.
C29_PrimaryMeetsContext ==
    [][(HydrationOfDoc /\ ManagedSelected(containerEnv))
       => LET after == configFile'.doc
              catalog == after.providers["openai"].models
              first == FirstModel(catalog, LAMBDA m : m.contextWindow >= 16000)
          IN /\ first # 0
             /\ after.primary = ModelRef("openai", catalog[first].id)
             /\ \A i \in 1..Len(catalog) :
                   catalog[i].contextWindow < 16000
                   => after.primary # ModelRef("openai", catalog[i].id)]_vars

C29_Witness ==
    /\ boot[0].pc = "cleanup"
    /\ containerEnv.USE_WORKERS_AI = ""
    /\ containerEnv.AI_GATEWAY_BASE_URL = WorkerAiUrlSlash
    /\ configFile.kind = "doc"
    /\ configFile.doc.providers["openai"].models[3].contextWindow = 8192
    /\ configFile.doc.providers["openai"].models[1].contextWindow = 128000
    /\ configFile.doc.primary = "openai/llama-3.1-8b-instruct"

\* The primary names a provider of the document and one of its models.
PrimaryResolves(doc) ==
    \E n \in DOMAIN doc.providers :
        \E i \in 1..Len(doc.providers[n].models) :
            doc.primary = ModelRef(n, doc.providers[n].models[i].id)

C31_AnthropicUrlCredential ==
    [][(HydrationOfDoc /\ SelectedRule(containerEnv) = "anthropic-url")
       => LET after == configFile'.doc.providers["anthropic"]
              key == containerEnv.ANTHROPIC_API_KEY
          IN /\ after.baseUrl = BaseUrl(containerEnv)
             /\ after.api = "anthropic-messages"
             /\ (key # "" => after.apiKey = key)
             /\ (key = "" => after.apiKey = NoKey)]_vars

C31_Witness ==
    /\ boot[0].pc = "cleanup"
    /\ SelectedRule(containerEnv) = "anthropic-url"
    /\ containerEnv.ANTHROPIC_API_KEY = ""
    /\ gatewayToken = UndefinedToken
    /\ configFile.kind = "doc"
    /\ configFile.doc.gateway.token = "old-token"
    /\ configFile.doc.providers["anthropic"].apiKey = NoKey
    /\ configFile.doc.providers["anthropic"].models = AnthropicUrlModels

\* What a run of the startup script has logged.
Logged(o, e) == \E i \in 1..Len(boot[o].log) : boot[o].log[i] = e

\* C32: a startup that restored the configuration from a bucket which also
\* holds skills has restored the skills too, before it launches the gateway.
C32_RestoresConfigAndSkills ==
    \A o \in Owners :
        (Logged(o, "restore") /\ backup.hasSkills)
        => (Logged(o, "skills") /\ skills = "restored")

\* C33: a step of a status request (arrival, discovery, probe, response)
\* changes no gateway process, launches none, and touches neither a restart
\* request, a run of the startup script, the configuration nor the backup
\* state, whatever else is in flight.
C33_StatusReadOnly ==
    [][\A s \in StatusIds :
          status'[s] # status[s]
          => /\ gw' = gw
             /\ nextPid' = nextPid
             /\ launch' = launch
             /\ boot' = boot
             /\ restart' = restart
             /\ configFile' = configFile
             /\ localSync' = localSync
             /\ skills' = skills]_vars

C33_Witness ==
    \E s \in StatusIds, r \in RestartIds :
        /\ status[s].pc = "done"
        /\ status[s].resp.status = "not_responding"
        /\ restart[r].pc = "kill"
        /\ restart[r].existing = status[s].found
        /\ gw[status[s].found] = "hung"

\* C34: a chat-completions request with no model, or with a model that is
\* not in the model map, is served by DEFAULT_MODEL; the model field of the
\* response is the name the request gave.
C34_DefaultModelServes ==
    /\ (chat.pc = "run" /\ chat.body.model \in {NoModel, ""})
         => chat.workersAiModel = DEFAULT_MODEL
    /\ (chat.pc = "run" /\ chat.body.model \notin DOMAIN MODEL_MAP)
         => chat.workersAiModel = DEFAULT_MODEL
    /\ (chat.resp.code = 200 /\ chat.body.model \notin {NoModel, ""})
         => chat.resp.model = chat.body.model

\* A status poll made after the restart's relaunch resolved has come back
\* reporting a running gateway that is not the restart's previous process.
ReportsNewProcess(s, r) ==
    /\ status[s].pc = "done"
    /\ status[s].resp.status = "running"
    /\ status[s].resp.processId \notin {NoPid, restart[r].resp.previousProcessId}
\* The poll cannot tell: discovery threw, or the gateway stopped answering
\* after the relaunch.
PollInconclusive(s) ==
    \/ status[s].findFailed
    \/ \E p \in Pids : gw[p] = "hung"

C36_HydrateIdempotent ==
    [][(boot[0].pc = "hydrate" /\ boot'[0].pc = "cleanup")
          => (/\ ~HydrateThrows(configFile')
              /\ Hydrate(configFile', containerEnv, gatewayToken) = configFile')]_vars

\* A hydration rewrote a persisted document with its own provider entry,
\* gateway fields and token, and a second application leaves it as written.
C36_Witness ==
    /\ boot[0].pc = "cleanup"
    /\ configFile.kind = "doc"
    /\ configFile # DocFile(CustomDoc)
    /\ configFile.doc.gateway.token = "old-token"
    /\ SelectedRule(containerEnv) = "groq"
    /\ Hydrate(configFile, containerEnv, gatewayToken) = configFile

\* C37: a run of the startup script that finds a gateway process answering
\* on the port exits at that check: the step restores nothing from the
\* bucket (configuration, marker and skills stay), rewrites no configuration,
\* terminates and launches no process, and the run takes no later step (its
\* log of restore, hydrate and launch stays empty and it has ended).
C37_EarlyExitTouchesNothing ==
    /\ [](\A o \in Owners :
            boot[o].sawHealthy => (boot[o].pc = "ok" /\ boot[o].log = <<>>))
    /\ [][\A o \in Owners :
            (boot[o].pc = "check" /\ boot'[o].pc # "check"
             /\ LiveProcs # {} /\ PortAnswers)
            => (/\ boot'[o].sawHealthy
                /\ UNCHANGED <<configFile, localSync, skills, backup>>
                /\ UNCHANGED <<gw, launch, nextPid>>)]_vars

\* A run exited at the check although the bucket held a newer backup, which
\* stays unrestored.
C37_Witness ==
    \E o \in Owners :
        /\ boot[o].pc = "ok" /\ boot[o].sawHealthy
        /\ HasConfigBackup(backup)
        /\ ShouldRestoreFromR2(backup.sync, localSync)
        /\ configFile # backup.config
        /\ gw[1] = "serving"

====
